---- MODULE Spec2Model ----
(***************************************************************************)
(* Model of the data_communicator crate: a DataContainer that owns a       *)
(* Storage, takes change and query submissions from Communicators, polls   *)
(* the storage futures, and fans successful changes out to the             *)
(* communicators that are interested in them.                              *)
(*                                                                         *)
(* DataContainer::state_update and Communicator::state_update are          *)
(* synchronous functions and are modelled as one action each.  The tasks   *)
(* the code spawns on the executor (the storage futures and the detached   *)
(* mailbox sends) run concurrently and are modelled by nondeterminism: the *)
(* set of storage futures a tick finds finished, and the order in which    *)
(* pending sends reach a mailbox.                                          *)
(***************************************************************************)
EXTENDS Integers, Sequences, FiniteSets, TLC

\* ---------------------------------------------------------------- bounds
MaxKey == 2
MaxVal == 1
MaxComms == 2
MaxOps == 2
MaxViewKey == 3
MaxPage == 3
MaxPerPage == 4

\* ------------------------------------------------------ program constants
MailboxCapacity == 20
SubmissionCapacity == 10

Keys == 1..MaxKey
Vals == 0..MaxVal
Values == [key : Keys, val : Vals]
Uuids == 1..MaxComms
OpIds == 1..MaxOps

\* ------------------------------------------------------------- utilities
RECURSIVE DescList(_)
DescList(S) ==
    IF S = {} THEN <<>>
    ELSE LET m == CHOOSE x \in S : \A y \in S : y <= x
         IN <<m>> \o DescList(S \ {m})

RECURSIVE AscList(_)
AscList(S) ==
    IF S = {} THEN <<>>
    ELSE LET m == CHOOSE x \in S : \A y \in S : x <= y
         IN <<m>> \o AscList(S \ {m})

Range(s) == {s[i] : i \in DOMAIN s}

\* GetKeys::keys for a Vec<Value>
ValueKeys(values) == {values[i].key : i \in DOMAIN values}

\* A HashMap<Key, Value> is a set of values with pairwise distinct keys.
MapKeys(m) == {v.key : v \in m}
MapInsert(m, v) == {x \in m : x.key # v.key} \cup {v}
MapRemove(m, k) == {x \in m : x.key # k}

RECURSIVE MapExtend(_, _)
MapExtend(m, values) ==
    IF values = <<>> THEN m
    ELSE MapExtend(MapInsert(m, Head(values)), Tail(values))

\* ------------------------------------------------------------ query types
QAll == [t |-> "All"]
QGetById(k) == [t |-> "GetById", key |-> k]
QGetByIds(ks) == [t |-> "GetByIds", keys |-> ks]
QPredicate == [t |-> "Predicate"]
NoQuery == [t |-> "None"]

\* The one predicate the clients of the model use (tests.rs filters on the
\* value's payload).
predicate(value) == value.val > 0

\* QueryType::apply
apply(query_type, value) ==
    CASE query_type.t = "All" -> TRUE
      [] query_type.t = "GetById" -> query_type.key = value.key
      [] query_type.t = "GetByIds" -> value.key \in Range(query_type.keys)
      [] query_type.t = "Predicate" -> predicate(value)

\* ------------------------------------------------------------ data change
DataChange(t, items) == [t |-> t, items |-> items]

\* From<ChangeType> for DataChange
ToDataChange(action) ==
    CASE action.t \in {"Insert", "InsertMany"} -> DataChange("Insert", action.items)
      [] action.t \in {"Update", "UpdateMany"} -> DataChange("Update", action.items)
      [] action.t \in {"Delete", "DeleteMany"} -> DataChange("Delete", action.items)

\* ChangeType::is_empty
ChangeTypeIsEmpty(action) ==
    action.t \in {"InsertMany", "UpdateMany", "DeleteMany"} /\ action.items = <<>>

\* ChangeResponse::empty_ok
empty_ok(action) ==
    [ok |-> TRUE,
     data |-> DataChange(ToDataChange(action).t, <<>>)]

\* Variant of from_type_and_result that answers Ok for every result.
from_type_and_result_always_ok(action, success) ==
    [ok |-> TRUE, data |-> ToDataChange(action)]

\* ChangeResponse::from_type_and_result
from_type_and_result(action, success) ==
    IF success THEN [ok |-> TRUE, data |-> ToDataChange(action)]
    ELSE [ok |-> FALSE, data |-> DataChange("None", <<>>)]

\* ------------------------------------------- Storage (the HashMap storage)
storage_insert(s, value) == MapInsert(s, value)

storage_update(s, value) ==
    IF value.key \in MapKeys(s) THEN MapInsert(s, value) ELSE s

storage_delete(s, key) == MapRemove(s, key)

RECURSIVE storage_update_many(_, _)
storage_update_many(s, values) ==
    IF values = <<>> THEN s
    ELSE storage_update_many(storage_update(s, Head(values)), Tail(values))

RECURSIVE storage_delete_many(_, _)
storage_delete_many(s, keys) ==
    IF keys = <<>> THEN s
    ELSE storage_delete_many(storage_delete(s, Head(keys)), Tail(keys))

\* Variant of handle_change without the early return for an empty action.
handle_change_no_short_circuit(s, action) ==
    [storage |->
        CASE action.t = "Insert" -> storage_insert(s, action.items[1])
          [] action.t = "InsertMany" -> MapExtend(s, action.items)
          [] action.t = "Update" -> storage_update(s, action.items[1])
          [] action.t = "UpdateMany" -> storage_update_many(s, action.items)
          [] action.t = "Delete" -> storage_delete(s, action.items[1])
          [] action.t = "DeleteMany" -> storage_delete_many(s, action.items),
     invoked |-> TRUE,
     result |-> "Success",
     response |-> from_type_and_result(action, TRUE)]

\* Storage::handle_change: the storage after the call and the response the
\* returned promise will resolve to.
handle_change(s, action) ==
    IF ChangeTypeIsEmpty(action)
    THEN [storage |-> s, invoked |-> FALSE, result |-> "Success",
          response |-> empty_ok(action)]
    ELSE [storage |->
            CASE action.t = "Insert" -> storage_insert(s, action.items[1])
              [] action.t = "InsertMany" -> MapExtend(s, action.items)
              [] action.t = "Update" -> storage_update(s, action.items[1])
              [] action.t = "UpdateMany" -> storage_update_many(s, action.items)
              [] action.t = "Delete" -> storage_delete(s, action.items[1])
              [] action.t = "DeleteMany" -> storage_delete_many(s, action.items),
          invoked |-> TRUE,
          result |-> "Success",
          response |-> from_type_and_result(action, TRUE)]

\* Storage::handle_change over a storage whose operation returns
\* ChangeResult::Error and leaves the rows as they are.
handle_change_failing(s, action) ==
    IF ChangeTypeIsEmpty(action)
    THEN [storage |-> s, invoked |-> FALSE, result |-> "Success",
          response |-> empty_ok(action)]
    ELSE [storage |-> s, invoked |-> TRUE, result |-> "Error",
          response |-> from_type_and_result(action, FALSE)]

QueryOk(fresh) == [ok |-> TRUE, fresh |-> fresh]
QueryErr == [ok |-> FALSE, fresh |-> {}]

\* Storage::handle_query: the response the returned promise will resolve to.
handle_query(s, query_type) ==
    CASE query_type.t = "All" -> QueryOk(s)
      [] query_type.t = "GetById" ->
            IF query_type.key \in MapKeys(s)
            THEN QueryOk({v \in s : v.key = query_type.key})
            ELSE QueryErr
      [] query_type.t = "GetByIds" ->
            IF Range(query_type.keys) \subseteq MapKeys(s)
            THEN QueryOk({v \in s : v.key \in Range(query_type.keys)})
            ELSE QueryErr
      [] query_type.t = "Predicate" -> QueryOk({v \in s : predicate(v)})

\* ------------------------------------------------------------------ state
VARIABLES
    storage,            \* DataContainer.storage: the rows of the HashMap storage
    change_channel,     \* Reciver.change_reciver: submitted changes, not yet drained
    query_channel,      \* Reciver.query_reciver: submitted queries, not yet drained
    running_actions,    \* DataContainer.running_actions
    comm_to_info,       \* CommunicatorInfo.comm_to_info: uuid -> Info
    sending_responses,  \* UpdateSender.sending_responses: the spawned sends
    change_data_channel,\* per communicator: the mpsc channel of DataChange
    fresh_data_channel, \* per communicator: the mpsc channel of FreshData
    data,               \* per communicator: Communicator.data.data
    has_changed,        \* per communicator: Communicator.has_changed
    dropped,            \* the communicators that were dropped: their recivers
                        \* are gone and their channels closed
    container_dropped,  \* the DataContainer was dropped
    replies,            \* per submitted operation: what its oneshot channel carries
    next_id,            \* number of operations submitted so far, plus one
    view,               \* a Data taken alone: Data.data, Data.sorted, Data.sorting_fn
    paged,              \* the last call of Data::page on it since it was changed,
                        \* and what the call returned
    handed,             \* history: per communicator, messages handed to the pool
    log                 \* history: what the step just taken did, in order, when it
                        \* was a DataContainer::state_update (the changes fanned
                        \* out, the queries returned, the actions recived); empty
                        \* after any other step

vars == <<storage, change_channel, query_channel, running_actions, comm_to_info,
          sending_responses, change_data_channel, fresh_data_channel, data,
          has_changed, dropped, container_dropped, replies, next_id, handed, log,
          view, paged>>

\* Info::default
InfoDefault == [value_keys |-> {}, last_query |-> NoQuery]

\* The communicators DataContainer::communicator has created.
Registered == DOMAIN comm_to_info

\* ------------------------------------------------------- CommunicatorInfo
\* Variant of CommunicatorInfo::update_query that leaves the last query as
\* it is.
update_query_never(infos, query) == infos

\* CommunicatorInfo::update_query
update_query(infos, query) ==
    [infos EXCEPT ![query.origin_uuid].last_query = query.query_type]

\* Variants of comm_update with one slip each, for the sensitivity of the
\* projection properties: an Update also matched against the last query; an
\* Insert kept only when it is both known and matched; a Delete passed on
\* unfiltered.
comm_update_update_by_query(info, update) ==
    CASE update.t = "Insert" ->
            DataChange("Insert",
                SelectSeq(update.items,
                    LAMBDA value :
                        \/ value.key \in info.value_keys
                        \/ info.last_query # NoQuery /\ apply(info.last_query, value)))
      [] update.t = "Update" ->
            DataChange("Update",
                SelectSeq(update.items,
                    LAMBDA value :
                        \/ value.key \in info.value_keys
                        \/ info.last_query # NoQuery /\ apply(info.last_query, value)))
      [] update.t = "Delete" ->
            DataChange("Delete",
                SelectSeq(update.items, LAMBDA key : key \in info.value_keys))

comm_update_insert_both(info, update) ==
    CASE update.t = "Insert" ->
            DataChange("Insert",
                SelectSeq(update.items,
                    LAMBDA value :
                        /\ value.key \in info.value_keys
                        /\ info.last_query # NoQuery /\ apply(info.last_query, value)))
      [] update.t = "Update" ->
            DataChange("Update",
                SelectSeq(update.items,
                    LAMBDA value : value.key \in info.value_keys))
      [] update.t = "Delete" ->
            DataChange("Delete",
                SelectSeq(update.items, LAMBDA key : key \in info.value_keys))

comm_update_delete_unfiltered(info, update) ==
    CASE update.t = "Insert" ->
            DataChange("Insert",
                SelectSeq(update.items,
                    LAMBDA value :
                        \/ value.key \in info.value_keys
                        \/ info.last_query # NoQuery /\ apply(info.last_query, value)))
      [] update.t = "Update" ->
            DataChange("Update",
                SelectSeq(update.items,
                    LAMBDA value : value.key \in info.value_keys))
      [] update.t = "Delete" -> DataChange("Delete", update.items)

\* Variant of comm_update that hands every inserted value to every
\* communicator with a standing query.
comm_update_insert_unfiltered(info, update) ==
    CASE update.t = "Insert" ->
            DataChange("Insert",
                SelectSeq(update.items,
                    LAMBDA value :
                        value.key \in info.value_keys \/ info.last_query # NoQuery))
      [] update.t = "Update" ->
            DataChange("Update",
                SelectSeq(update.items,
                    LAMBDA value : value.key \in info.value_keys))
      [] update.t = "Delete" ->
            DataChange("Delete",
                SelectSeq(update.items, LAMBDA key : key \in info.value_keys))

\* Variant of comm_update in which a communicator that has no last query
\* is interested in every inserted value.
comm_update_no_query_matches(info, update) ==
    CASE update.t = "Insert" ->
            DataChange("Insert",
                SelectSeq(update.items,
                    LAMBDA value :
                        LET was_last_queried == value.key \in info.value_keys
                            new_data_matches_query ==
                                IF info.last_query # NoQuery
                                THEN apply(info.last_query, value)
                                ELSE TRUE
                        IN was_last_queried \/ new_data_matches_query))
      [] update.t = "Update" ->
            DataChange("Update",
                SelectSeq(update.items,
                    LAMBDA value : value.key \in info.value_keys))
      [] update.t = "Delete" ->
            DataChange("Delete",
                SelectSeq(update.items, LAMBDA key : key \in info.value_keys))

\* The closure of get_interested_comm: the part of `update` one communicator
\* with record `info` is interested in.
comm_update(info, update) ==
    CASE update.t = "Insert" ->
            DataChange("Insert",
                SelectSeq(update.items,
                    LAMBDA value :
                        LET was_last_queried == value.key \in info.value_keys
                            new_data_matches_query ==
                                IF info.last_query # NoQuery
                                THEN apply(info.last_query, value)
                                ELSE FALSE
                        IN was_last_queried \/ new_data_matches_query))
      [] update.t = "Update" ->
            DataChange("Update",
                SelectSeq(update.items,
                    LAMBDA value : value.key \in info.value_keys))
      [] update.t = "Delete" ->
            DataChange("Delete",
                SelectSeq(update.items, LAMBDA key : key \in info.value_keys))

\* CommunicatorInfo::get_interested_comm.  The code iterates a HashMap, so
\* the order of the targets is arbitrary; no two targets are the same
\* communicator, and the model lists them by ascending uuid.
get_interested_comm(infos, update) ==
    LET interested == {comm \in DOMAIN infos :
                          Len(comm_update(infos[comm], update).items) # 0}
        order == AscList(interested)
    IN [i \in DOMAIN order |->
            [target |-> order[i],
             change |-> comm_update(infos[order[i]], update)]]

\* Variant of CommunicatorInfo::update_info_from_change that keeps the keys
\* of a Delete.
update_info_from_change_keep_deleted(infos, target, update) ==
    CASE update.t = "Insert" ->
            [infos EXCEPT ![target].value_keys = @ \cup ValueKeys(update.items)]
      [] update.t = "Delete" -> infos
      [] update.t = "Update" -> infos

\* CommunicatorInfo::update_info_from_change
update_info_from_change(infos, target, update) ==
    CASE update.t = "Insert" ->
            [infos EXCEPT ![target].value_keys = @ \cup ValueKeys(update.items)]
      [] update.t = "Delete" ->
            [infos EXCEPT ![target].value_keys = @ \ Range(update.items)]
      [] update.t = "Update" -> infos

\* Variant of update_info_from_query that extends the keys without clearing.
update_info_from_query_merge(infos, target, fresh_data) ==
    [infos EXCEPT ![target].value_keys = @ \cup MapKeys(fresh_data)]

\* CommunicatorInfo::update_info_from_query
update_info_from_query(infos, target, fresh_data) ==
    [infos EXCEPT ![target].value_keys = MapKeys(fresh_data)]

\* ------------------------------------------------------------ UpdateSender
\* A spawned send: the message, its target, and whether the task has ended.
\* `n` is history: the position of the message among all those the
\* container produced for that target.
SendTask(target, kind, payload, n) ==
    [target |-> target, kind |-> kind, payload |-> payload, n |-> n, done |-> FALSE,
     err |-> FALSE]

\* Variant of UpdateSender::state_update that keeps the sends that ended
\* with an error.
update_sender_state_update_keep_failed(c) ==
    [c EXCEPT !.sending_responses = SelectSeq(@, LAMBDA e : ~e.done \/ e.err)]

\* Variant of UpdateSender::state_update that drops every send, finished or
\* not.
update_sender_state_update_drop_all(c) ==
    [c EXCEPT !.sending_responses = <<>>]

\* UpdateSender::state_update: drop the sends that are no longer Updating.
update_sender_state_update(c) ==
    [c EXCEPT !.sending_responses = SelectSeq(@, LAMBDA e : ~e.done)]

\* UpdateSender::send_change
send_change(c, targets) ==
    [c EXCEPT
        !.sending_responses = @ \o
            [i \in DOMAIN targets |->
                SendTask(targets[i].target, "change", targets[i].change,
                         c.handed[targets[i].target] + 1)],
        !.handed = [u \in DOMAIN @ |->
            IF \E i \in DOMAIN targets : targets[i].target = u THEN @[u] + 1 ELSE @[u]]]

\* UpdateSender::send_fresh_data
send_fresh_data(c, fresh_data, target) ==
    IF target \in DOMAIN c.handed
    THEN [c EXCEPT
            !.sending_responses =
                Append(@, SendTask(target, "fresh", fresh_data, c.handed[target] + 1)),
            !.handed[target] = @ + 1]
    ELSE c

\* ----------------------------------------------------------- DataContainer
\* The part of the state DataContainer::state_update reads and writes.
\* `failing` are the submitted changes whose storage operation returns
\* ChangeResult::Error: none with the HashMap storage.
Container ==
    [storage |-> storage, change_channel |-> change_channel,
     query_channel |-> query_channel, running_actions |-> running_actions,
     comm_to_info |-> comm_to_info, sending_responses |-> sending_responses,
     replies |-> replies, handed |-> handed, log |-> <<>>, failing |-> {}]

RECURSIVE update_infos_from_changes(_, _)
update_infos_from_changes(infos, communicators) ==
    IF communicators = <<>> THEN infos
    ELSE update_infos_from_changes(
            update_info_from_change(infos, Head(communicators).target,
                                    Head(communicators).change),
            Tail(communicators))

\* DataContainer::update_communicators
update_communicators(c, id, update) ==
    LET communicators == get_interested_comm(c.comm_to_info, update)
        c1 == [c EXCEPT !.comm_to_info = update_infos_from_changes(@, communicators)]
        c2 == send_change(c1, communicators)
    IN [c2 EXCEPT !.log = Append(@,
            [kind |-> "Change", id |-> id, update |-> update,
             before |-> c.comm_to_info, communicators |-> communicators,
             after |-> c2.comm_to_info])]

\* Variant of DataContainer::return_query that returns the rows to the
\* first communicator of the registry, whoever asked.
return_query_to_first(c, id, communicator, values) ==
    LET first == CHOOSE u \in DOMAIN c.comm_to_info :
                    \A w \in DOMAIN c.comm_to_info : u <= w
        c1 == [c EXCEPT !.comm_to_info = update_info_from_query(@, first, values)]
        c2 == send_fresh_data(c1, values, first)
    IN [c2 EXCEPT !.log = Append(@,
            [kind |-> "Query", id |-> id, communicator |-> first,
             values |-> values, before |-> c.comm_to_info,
             after |-> c2.comm_to_info])]

\* DataContainer::return_query
return_query(c, id, communicator, values) ==
    LET c1 == [c EXCEPT !.comm_to_info = update_info_from_query(@, communicator, values)]
        c2 == send_fresh_data(c1, values, communicator)
    IN [c2 EXCEPT !.log = Append(@,
            [kind |-> "Query", id |-> id, communicator |-> communicator,
             values |-> values, before |-> c.comm_to_info,
             after |-> c2.comm_to_info])]

\* Variant of drain_if_iter that yields the accepted elements and removes
\* none.
drain_if_iter_keep(actions, finished) ==
    [drained |-> [i \in DOMAIN DescList(finished) |-> actions[DescList(finished)[i]]],
     kept |-> actions]

\* DrainIf::drain_if_iter: the indexes the predicate accepts are sorted,
\* reversed, and the elements removed and yielded in that order.
drain_if_iter(actions, finished) ==
    [drained |-> [i \in DOMAIN DescList(finished) |-> actions[DescList(finished)[i]]],
     kept |-> [i \in DOMAIN AscList(DOMAIN actions \ finished) |->
                  actions[AscList(DOMAIN actions \ finished)[i]]]]

\* ResolvingAction::resolve, for every drained action: the result goes to
\* the operation's reply channel; when the reciver of that channel is gone
\* the send fails and the error is only logged.
RECURSIVE send_results(_, _)
send_results(reps, drained) ==
    IF drained = <<>> THEN reps
    ELSE send_results(
            [reps EXCEPT ![Head(drained).id] =
                IF @ = "abandoned" THEN @
                ELSE IF Head(drained).response.ok THEN "Success" ELSE "Error"],
            Tail(drained))

\* Variant of for_each_resolved that returns the rows of a query whose
\* response is an error.
RECURSIVE for_each_resolved_ignore_error(_, _)
for_each_resolved_ignore_error(c, drained) ==
    IF drained = <<>> THEN c
    ELSE LET action == Head(drained)
             c1 == IF action.kind = "Change"
                   THEN IF action.response.ok
                        THEN update_communicators(c, action.id, action.response.data)
                        ELSE c
                   ELSE return_query(c, action.id, action.origin_uuid,
                                     action.response.fresh)
         IN for_each_resolved_ignore_error(c1, Tail(drained))

\* Variant of for_each_resolved in which an action whose reply could not be
\* sent resolves to no ResolvedAction.
RECURSIVE for_each_resolved_reply_sent(_, _)
for_each_resolved_reply_sent(c, drained) ==
    IF drained = <<>> THEN c
    ELSE LET action == Head(drained)
             c1 == IF ~action.response.ok \/ c.replies[action.id] = "abandoned" THEN c
                   ELSE IF action.kind = "Change"
                        THEN update_communicators(c, action.id, action.response.data)
                        ELSE return_query(c, action.id, action.origin_uuid,
                                          action.response.fresh)
         IN for_each_resolved_reply_sent(c1, Tail(drained))

\* The for_each of DataContainer::state_update over the resolved actions; an
\* action whose response is an error resolves to no ResolvedAction.
RECURSIVE for_each_resolved(_, _)
for_each_resolved(c, drained) ==
    IF drained = <<>> THEN c
    ELSE LET action == Head(drained)
             c1 == IF ~action.response.ok THEN c
                   ELSE IF action.kind = "Change"
                        THEN update_communicators(c, action.id, action.response.data)
                        ELSE return_query(c, action.id, action.origin_uuid,
                                          action.response.fresh)
         IN for_each_resolved(c1, Tail(drained))

\* Variant of resolve_finished_actions that finds no action finished.
resolve_finished_actions_never(c, polled) == c

\* DataContainer::resolve_finished_actions followed by the for_each of
\* state_update.  `polled` are the positions whose promise poll_and_finished
\* finds finished.
resolve_finished_actions(c, polled) ==
    LET finished == polled \cap DOMAIN c.running_actions
        d == drain_if_iter(c.running_actions, finished)
        c1 == [c EXCEPT !.running_actions = d.kept,
                        !.replies = send_results(@, d.drained)]
    IN for_each_resolved(c1, d.drained)

\* The closure of recive_new_actions, for a change and for a query.
RECURSIVE start_changes(_, _)
start_changes(c, changes) ==
    IF changes = <<>> THEN c
    ELSE LET change == Head(changes)
             h == IF change.id \in c.failing
                  THEN handle_change_failing(c.storage, change.action)
                  ELSE handle_change(c.storage, change.action)
         IN start_changes(
                [c EXCEPT !.storage = h.storage,
                          !.running_actions = Append(@,
                              [kind |-> "Change", id |-> change.id,
                               result |-> h.result, response |-> h.response]),
                          !.log = Append(@,
                              [kind |-> "Recived", id |-> change.id,
                               action |-> change.action, invoked |-> h.invoked])],
                Tail(changes))

RECURSIVE start_queries(_, _)
start_queries(c, queries) ==
    IF queries = <<>> THEN c
    ELSE LET query == Head(queries)
         IN start_queries(
                [c EXCEPT !.comm_to_info = update_query(@, query),
                          !.running_actions = Append(@,
                              [kind |-> "Query", id |-> query.id,
                               origin_uuid |-> query.origin_uuid,
                               response |-> handle_query(c.storage, query.query_type)]),
                          !.log = Append(@, [kind |-> "Recived", id |-> query.id])],
                Tail(queries))

\* Variant of recive_new_actions that takes the pending queries before the
\* pending changes.
recive_new_actions_queries_first(c) ==
    LET c1 == start_queries(c, c.query_channel)
        c2 == start_changes(c1, c.change_channel)
    IN [c2 EXCEPT !.change_channel = <<>>, !.query_channel = <<>>]

\* DataContainer::recive_new_actions with Reciver::recive_new: every pending
\* change, then every pending query.
recive_new_actions(c) ==
    LET c1 == start_changes(c, c.change_channel)
        c2 == start_queries(c1, c.query_channel)
    IN [c2 EXCEPT !.change_channel = <<>>, !.query_channel = <<>>]

\* Variant of state_update that recives the new actions before it resolves
\* the finished ones.
state_update_recive_first(c, polled) ==
    resolve_finished_actions(
        recive_new_actions(update_sender_state_update(c)), polled)

\* Variant of state_update that does not reap the finished sends.
state_update_no_reap(c, polled) ==
    recive_new_actions(resolve_finished_actions(c, polled))

\* DataContainer::state_update
state_update(c, polled) ==
    recive_new_actions(
        resolve_finished_actions(update_sender_state_update(c), polled))

\* ------------------------------------------------------ Communicator data
\* Data::insert
data_insert(d, values) == MapExtend(d, values)

\* Variant of Data::update that adds the new rows next to the old ones.
data_update_keep_old(d, values) == d \cup Range(values)

\* Variant of Data::update that inserts a value whose key is not in the map.
data_update_upsert(d, values) == MapExtend(d, values)

\* Data::update: a value whose key is not in the map is skipped.
RECURSIVE data_update(_, _)
data_update(d, values) ==
    IF values = <<>> THEN d
    ELSE data_update(
            IF Head(values).key \in MapKeys(d) THEN MapInsert(d, Head(values)) ELSE d,
            Tail(values))

\* Data::delete
data_delete(d, keys) == {x \in d : x.key \notin Range(keys)}

\* Data::update_data
update_data(d, change) ==
    CASE change.t = "Insert" -> data_insert(d, change.items)
      [] change.t = "Update" -> data_update(d, change.items)
      [] change.t = "Delete" -> data_delete(d, change.items)

\* Data::add_fresh_data, Data::extend
add_fresh_data(d, fresh) == {x \in d : x.key \notin MapKeys(fresh)} \cup fresh

\* Reciver::recive_new of the communicator: every waiting DataChange, then
\* every waiting FreshData.
recive_new(changes, fresh) == changes \o fresh

\* The for_each of Communicator::state_update
RECURSIVE apply_recieved(_, _)
apply_recieved(d, actions) ==
    IF actions = <<>> THEN d
    ELSE apply_recieved(
            IF Head(actions).kind = "change"
            THEN update_data(d, Head(actions).payload)
            ELSE add_fresh_data(d, Head(actions).payload),
            Tail(actions))

\* ------------------------------------------------- the sorted view (Data)
\* The rows of a view that is sorted and paged.
ViewKeys == 1..MaxViewKey
ViewValues == [key : ViewKeys, val : Vals]

\* Option<T>
Some(x) == [t |-> "Some", v |-> x]
None == [t |-> "None"]

\* What a call that can panic does: it returns x, or it unwinds.
Returned(x) == [t |-> "returned", v |-> x]
Panic == [t |-> "panic"]

\* The sorting functions Communicator::sort is called with: the one of
\* Data::new compares the keys, the one of the tests compares the vals; the
\* third compares the vals with the arguments swapped.
Comparators == {"key", "val", "val_rev"}

\* A call of the sorting function: the std::cmp::Ordering of a and b
sorting_fn_call(f, a, b) ==
    LET x == CASE f = "key" -> a.key [] f = "val" -> a.val [] f = "val_rev" -> b.val
        y == CASE f = "key" -> b.key [] f = "val" -> b.val [] f = "val_rev" -> a.val
    IN IF x < y THEN "Less" ELSE IF x = y THEN "Equal" ELSE "Greater"

\* permutation::sort_by: the permutation that sorts the slice, as the list
\* of the indexes of the slice in sorted order.  The sort is stable: an
\* index is placed after the indexes of the elements that are not Greater.
RECURSIVE sort_by_place(_, _, _, _)
sort_by_place(perm, j, slice, f) ==
    IF perm = <<>> THEN <<j>>
    ELSE IF sorting_fn_call(f, slice[Head(perm)], slice[j]) = "Greater"
         THEN <<j>> \o perm
         ELSE <<Head(perm)>> \o sort_by_place(Tail(perm), j, slice, f)

RECURSIVE sort_by_prefix(_, _, _)
sort_by_prefix(slice, f, n) ==
    IF n = 0 THEN <<>>
    ELSE sort_by_place(sort_by_prefix(slice, f, n - 1), n, slice, f)

sort_by(slice, f) == sort_by_prefix(slice, f, Len(slice))

\* Permutation::apply_slice: it asserts that the slice has the length of
\* the permutation.
apply_slice(perm, slice) ==
    IF Len(slice) # Len(perm) THEN Panic
    ELSE Returned([i \in 1..Len(slice) |-> slice[perm[i]]])

\* Data::new.  values is self.data.values(): the rows of the HashMap in the
\* order its iterator returns them.
DataNew == [values |-> <<>>, sorted |-> <<>>, sorting_fn |-> "key"]

\* Variant of Data::resort that compares the keys whatever the sorting
\* function is.
resort_by_key(d) == [d EXCEPT !.sorted = sort_by(d.values, "key")]

\* Data::resort
resort(d) == [d EXCEPT !.sorted = sort_by(d.values, d.sorting_fn)]

\* Data::new_sorting_fn
new_sorting_fn(d, f) == resort([d EXCEPT !.sorting_fn = f])

\* Data::sorted
sorted(d) == apply_slice(d.sorted, d.values)

\* The orders in which the iterator of a HashMap can return its values.
IterationOrders(m) == {s \in [1..Cardinality(m) -> m] : Range(s) = m}

\* Data::insert, Data::delete and Data::extend: the map changes, its
\* iterator returns the rows in some order, and the view is resorted.
view_insert(d, values, order) == resort([d EXCEPT !.values = order])
view_delete(d, keys, order) == resort([d EXCEPT !.values = order])
view_extend(d, fresh, order) == resort([d EXCEPT !.values = order])

\* Data::update: the rows are replaced in place, and the view is resorted.
view_update(d, values) ==
    LET m == data_update(Range(d.values), values)
    IN resort([d EXCEPT !.values = [i \in DOMAIN d.values |->
            CHOOSE row \in m : row.key = d.values[i].key]])

RECURSIVE chunks_exact_of(_, _)
chunks_exact_of(slice, chunk_size) ==
    IF Len(slice) < chunk_size THEN <<>>
    ELSE <<SubSeq(slice, 1, chunk_size)>>
            \o chunks_exact_of(SubSeq(slice, chunk_size + 1, Len(slice)), chunk_size)

\* Variant of slice::chunks that leaves out a last chunk that is shorter
\* than chunk_size (slice::chunks_exact).
chunks_exact(slice, chunk_size) ==
    IF chunk_size = 0 THEN Panic ELSE Returned(chunks_exact_of(slice, chunk_size))

\* The chunks of a slice, for a chunk_size that is not zero: chunk_size
\* elements each, but the last, which has what is left.
RECURSIVE chunks_of(_, _)
chunks_of(slice, chunk_size) ==
    IF slice = <<>> THEN <<>>
    ELSE IF Len(slice) <= chunk_size THEN <<slice>>
    ELSE <<SubSeq(slice, 1, chunk_size)>>
            \o chunks_of(SubSeq(slice, chunk_size + 1, Len(slice)), chunk_size)

\* slice::chunks: it asserts that chunk_size is not zero.
chunks(slice, chunk_size) ==
    IF chunk_size = 0 THEN Panic ELSE Returned(chunks_of(slice, chunk_size))

\* Iterator::nth
nth(iter, n) == IF n < Len(iter) THEN Some(iter[n + 1]) ELSE None

\* Data::page
page(d, p, per_page) ==
    LET all == sorted(d)
    IN IF all = Panic THEN Panic
       ELSE LET all_chunks == chunks(all.v, per_page)
            IN IF all_chunks = Panic THEN Panic
               ELSE Returned(nth(all_chunks.v, p))

\* No call of Data::page was made yet.
NotCalled == [page |-> 0, per_page |-> 0, result |-> [t |-> "not called"]]

\* ------------------------------------------------------------ client input
\* The arguments the clients of the model call the API with.
ValueLists ==
    {<<>>} \cup {l \in {<<a, b>> : a \in Values, b \in Values} : l[1].key < l[2].key}
KeyLists == {<<>>} \cup {l \in {<<a, b>> : a \in Keys, b \in Keys} : l[1] < l[2]}

\* The arguments the methods of Data are called with.
ViewValueLists ==
    {<<a>> : a \in ViewValues} \cup {<<a, b>> : a \in ViewValues, b \in ViewValues}
ViewKeyLists == {<<a>> : a \in ViewKeys} \cup {<<a, b>> : a \in ViewKeys, b \in ViewKeys}
ViewFreshData ==
    {m \in SUBSET ViewValues : \A a \in m, b \in m : a.key = b.key => a = b}

\* The rows the storage holds when the container is constructed:
\* Storage::init builds the store from its arguments, and a store may come
\* with rows (the HashMap of the tests comes with none).
InitialStorages == {m \in SUBSET Values : \A a \in m, b \in m : a.key = b.key => a = b}
QueryTypes ==
    {QAll, QPredicate} \cup {QGetById(k) : k \in Keys}
        \cup {QGetByIds(ks) : ks \in KeyLists \ {<<>>}}

\* ------------------------------------------------------------------ actions
Init ==
    /\ storage \in InitialStorages
    /\ change_channel = <<>>
    /\ query_channel = <<>>
    /\ running_actions = <<>>
    /\ comm_to_info = <<>>
    /\ sending_responses = <<>>
    /\ change_data_channel = <<>>
    /\ fresh_data_channel = <<>>
    /\ data = <<>>
    /\ has_changed = <<>>
    /\ dropped = {}
    /\ container_dropped = FALSE
    /\ view = DataNew
    /\ paged = NotCalled
    /\ replies = [id \in OpIds |-> "unsent"]
    /\ next_id = 1
    /\ handed = <<>>
    /\ log = <<>>

\* DataContainer::communicators::<MaxComms>, which calls
\* DataContainer::communicator for each element of the array.
communicators ==
    /\ Registered = {}
    /\ comm_to_info' = [uuid \in Uuids |-> InfoDefault]
    /\ change_data_channel' = [uuid \in Uuids |-> <<>>]
    /\ fresh_data_channel' = [uuid \in Uuids |-> <<>>]
    /\ data' = [uuid \in Uuids |-> {}]
    /\ has_changed' = [uuid \in Uuids |-> TRUE]
    /\ UNCHANGED <<dropped, container_dropped,
                   view, paged>>
    /\ handed' = [uuid \in Uuids |-> 0]
    /\ log' = <<>>
    /\ UNCHANGED <<storage, change_channel, query_channel, running_actions,
                   sending_responses, replies, next_id>>

\* Sender::change_future up to the send into the submission channel; the
\* reply is awaited on the operation's oneshot channel.
send_change_future(action) ==
    /\ Registered \ dropped # {}
    /\ next_id <= MaxOps
    /\ Len(change_channel) < SubmissionCapacity
    /\ change_channel' = Append(change_channel, [id |-> next_id, action |-> action])
    /\ replies' = [replies EXCEPT ![next_id] = "pending"]
    /\ next_id' = next_id + 1
    /\ log' = <<>>
    /\ UNCHANGED <<storage, query_channel, running_actions, comm_to_info,
                   sending_responses, change_data_channel, fresh_data_channel,
                   data, has_changed, dropped, container_dropped, handed,
                   view, paged>>

\* Communicator::insert, insert_many, update, update_many, delete, delete_many
insert == \E val \in Values : send_change_future([t |-> "Insert", items |-> <<val>>])
insert_many == \E vals \in ValueLists : send_change_future([t |-> "InsertMany", items |-> vals])
update == \E val \in Values : send_change_future([t |-> "Update", items |-> <<val>>])
update_many == \E vals \in ValueLists : send_change_future([t |-> "UpdateMany", items |-> vals])
delete == \E key \in Keys : send_change_future([t |-> "Delete", items |-> <<key>>])
delete_many == \E keys \in KeyLists : send_change_future([t |-> "DeleteMany", items |-> keys])

\* Communicator::query: Sender::query_future up to the send into the
\* submission channel.
query ==
    \E uuid \in Registered \ dropped, query_type \in QueryTypes :
        /\ next_id <= MaxOps
        /\ Len(query_channel) < SubmissionCapacity
        /\ query_channel' = Append(query_channel,
                [id |-> next_id, origin_uuid |-> uuid, query_type |-> query_type])
        /\ replies' = [replies EXCEPT ![next_id] = "pending"]
        /\ next_id' = next_id + 1
        /\ log' = <<>>
        /\ UNCHANGED <<storage, change_channel, running_actions, comm_to_info,
                       sending_responses, change_data_channel, fresh_data_channel,
                       data, has_changed, dropped, container_dropped, handed,
                   view, paged>>

\* DataContainer::state_update; the promises found finished are any of
\* those running.
container_state_update ==
    /\ UNCHANGED <<change_data_channel, fresh_data_channel, data,
                   has_changed, dropped, container_dropped, next_id,
                   view, paged>>
    /\ \E polled \in SUBSET OpIds :
        \E c \in {state_update(Container, polled)} :
           /\ storage' = c.storage
           /\ change_channel' = c.change_channel
           /\ query_channel' = c.query_channel
           /\ running_actions' = c.running_actions
           /\ comm_to_info' = c.comm_to_info
           /\ sending_responses' = c.sending_responses
           /\ replies' = c.replies
           /\ handed' = c.handed
           /\ log' = c.log

\* The task spawned by send_change or send_fresh_data: sender.send(..).await
\* completes once the channel has room.
sender_send ==
    \E i \in DOMAIN sending_responses :
        LET task == sending_responses[i]
            message == [kind |-> task.kind, payload |-> task.payload, n |-> task.n]
        IN /\ ~task.done
           /\ task.target \notin dropped
           /\ IF task.kind = "change"
              THEN /\ Len(change_data_channel[task.target]) < MailboxCapacity
                   /\ change_data_channel' =
                        [change_data_channel EXCEPT ![task.target] = Append(@, message)]
                   /\ UNCHANGED fresh_data_channel
              ELSE /\ Len(fresh_data_channel[task.target]) < MailboxCapacity
                   /\ fresh_data_channel' =
                        [fresh_data_channel EXCEPT ![task.target] = Append(@, message)]
                   /\ UNCHANGED change_data_channel
           /\ sending_responses' = [sending_responses EXCEPT ![i].done = TRUE]
           /\ log' = <<>>
           /\ UNCHANGED <<storage, change_channel, query_channel, running_actions,
                          comm_to_info, data, has_changed, dropped, container_dropped, replies, next_id, handed,
                   view, paged>>

\* The same task when the reciver of the channel is gone: send returns an
\* error and the task ends with it.
sender_send_closed ==
    \E i \in DOMAIN sending_responses :
        /\ ~sending_responses[i].done
        /\ sending_responses[i].target \in dropped
        /\ sending_responses' =
                [sending_responses EXCEPT ![i].done = TRUE, ![i].err = TRUE]
        /\ log' = <<>>
        /\ UNCHANGED <<storage, change_channel, query_channel, running_actions,
                       comm_to_info, change_data_channel, fresh_data_channel, data,
                       has_changed, dropped, container_dropped, replies, next_id, handed,
                   view, paged>>

\* The application drops a Communicator: its Reciver goes with it, the
\* messages waiting in its channels are lost and the channels are closed.
drop_communicator ==
    \E uuid \in Registered \ dropped :
        /\ dropped' = dropped \cup {uuid}
        /\ change_data_channel' = [change_data_channel EXCEPT ![uuid] = <<>>]
        /\ fresh_data_channel' = [fresh_data_channel EXCEPT ![uuid] = <<>>]
        /\ log' = <<>>
        /\ UNCHANGED <<storage, change_channel, query_channel, running_actions,
                       comm_to_info, sending_responses, data, has_changed, replies,
                       next_id, handed, container_dropped,
                   view, paged>>

\* The client drops the future of an operation it has submitted: the
\* reciver of the operation's reply channel goes with it.
abandon ==
    \E id \in OpIds :
        /\ replies[id] = "pending"
        /\ replies' = [replies EXCEPT ![id] = "abandoned"]
        /\ log' = <<>>
        /\ UNCHANGED <<storage, change_channel, query_channel, running_actions,
                       comm_to_info, sending_responses, change_data_channel,
                       fresh_data_channel, data, has_changed, dropped, container_dropped, next_id,
                       handed,
                   view, paged>>

\* Variant of drop_container in which the operations that are running keep
\* their reply channels open.
drop_container_keep_running ==
    /\ ~container_dropped
    /\ container_dropped' = TRUE
    /\ change_channel' = <<>>
    /\ query_channel' = <<>>
    /\ running_actions' = <<>>
    /\ replies' = [id \in OpIds |->
            IF replies[id] = "pending"
                /\ \A k \in DOMAIN running_actions : running_actions[k].id # id
            THEN "ChannelReciveError" ELSE replies[id]]
    /\ log' = <<>>
    /\ UNCHANGED <<storage, comm_to_info, sending_responses, change_data_channel,
                   fresh_data_channel, data, has_changed, dropped, next_id, handed,
                   view, paged>>

\* The application drops the DataContainer.  Its Reciver goes with it, which
\* closes the two submission channels and drops the actions waiting in
\* them, and so do the running actions: every reply channel whose sender
\* was held by one of them is closed without a value, and the future
\* awaiting it gets a RecvError, which it turns into
\* ChangeError::ChannelReciveError or QueryError::ChannelRecive.  The sends
\* already spawned are tasks of their own and go on.
drop_container ==
    /\ ~container_dropped
    /\ container_dropped' = TRUE
    /\ change_channel' = <<>>
    /\ query_channel' = <<>>
    /\ running_actions' = <<>>
    /\ replies' = [id \in OpIds |->
            IF replies[id] = "pending" THEN "ChannelReciveError" ELSE replies[id]]
    /\ log' = <<>>
    /\ UNCHANGED <<storage, comm_to_info, sending_responses, change_data_channel,
                   fresh_data_channel, data, has_changed, dropped, next_id, handed,
                   view, paged>>

\* Sender::change_future and Sender::query_future when the submission
\* channel is closed: the send fails and the future yields
\* ChangeError::ChannelSendError or QueryError::ChannelSend.
future_closed ==
    /\ container_dropped
    /\ Registered \ dropped # {}
    /\ next_id <= MaxOps
    /\ replies' = [replies EXCEPT ![next_id] = "ChannelSendError"]
    /\ next_id' = next_id + 1
    /\ log' = <<>>
    /\ UNCHANGED <<storage, change_channel, query_channel, running_actions,
                   comm_to_info, sending_responses, change_data_channel,
                   fresh_data_channel, data, has_changed, dropped,
                   container_dropped, handed,
                   view, paged>>

\* Communicator::state_update with `self.has_changed = true` moved out of
\* the loop over the received actions.
communicator_state_update_of_always_changed(uuid) ==
    LET actions == recive_new(change_data_channel[uuid], fresh_data_channel[uuid])
    IN /\ data' = [data EXCEPT ![uuid] = apply_recieved(@, actions)]
       /\ has_changed' = [has_changed EXCEPT ![uuid] = TRUE]
       /\ change_data_channel' = [change_data_channel EXCEPT ![uuid] = <<>>]
       /\ fresh_data_channel' = [fresh_data_channel EXCEPT ![uuid] = <<>>]
       /\ log' = <<>>
       /\ UNCHANGED <<storage, change_channel, query_channel, running_actions,
                      comm_to_info, sending_responses, dropped, container_dropped, replies,
                      next_id, handed,
                   view, paged>>

\* Communicator::state_update of the communicator uuid
communicator_state_update_of(uuid) ==
    LET actions == recive_new(change_data_channel[uuid], fresh_data_channel[uuid])
    IN /\ data' = [data EXCEPT ![uuid] = apply_recieved(@, actions)]
       /\ has_changed' = [has_changed EXCEPT ![uuid] = @ \/ actions # <<>>]
       /\ change_data_channel' = [change_data_channel EXCEPT ![uuid] = <<>>]
       /\ fresh_data_channel' = [fresh_data_channel EXCEPT ![uuid] = <<>>]
       /\ log' = <<>>
       /\ UNCHANGED <<storage, change_channel, query_channel, running_actions,
                      comm_to_info, sending_responses, dropped, container_dropped, replies,
                      next_id, handed,
                   view, paged>>

\* Communicator::state_update, of any communicator
communicator_state_update ==
    \E uuid \in Registered \ dropped : communicator_state_update_of(uuid)

Step ==
    \/ insert
    \/ insert_many
    \/ update
    \/ update_many
    \/ delete
    \/ delete_many
    \/ query
    \/ container_state_update
    \/ sender_send
    \/ communicator_state_update

Next == communicators \/ Step

Spec == Init /\ [][Next]_vars

\* The application after a start-up as lib.rs describes it: the store holds
\* a row for every key, the communicators are created, and the first has
\* completed query(QueryType::All), so it holds the rows of the storage and
\* All is its last query; the second has not queried yet.  The operations
\* counted by MaxOps are those submitted afterwards.
StartedUuid == CHOOSE uuid \in Uuids : \A other \in Uuids : uuid <= other

InitStarted ==
    /\ storage = {[key |-> k, val |-> 0] : k \in Keys}
    /\ change_channel = <<>>
    /\ query_channel = <<>>
    /\ running_actions = <<>>
    /\ comm_to_info = [uuid \in Uuids |->
            IF uuid = StartedUuid
            THEN [value_keys |-> MapKeys(storage), last_query |-> QAll]
            ELSE InfoDefault]
    /\ sending_responses = <<>>
    /\ change_data_channel = [uuid \in Uuids |-> <<>>]
    /\ fresh_data_channel = [uuid \in Uuids |-> <<>>]
    /\ data = [uuid \in Uuids |-> IF uuid = StartedUuid THEN storage ELSE {}]
    /\ has_changed = [uuid \in Uuids |-> TRUE]
    /\ dropped = {}
    /\ container_dropped = FALSE
    /\ view = DataNew
    /\ paged = NotCalled
    /\ replies = [id \in OpIds |-> "unsent"]
    /\ next_id = 1
    /\ handed = [uuid \in Uuids |-> IF uuid = StartedUuid THEN 1 ELSE 0]
    /\ log = <<>>

SpecStarted == InitStarted /\ [][Step]_vars

\* DataContainer::state_update over a storage whose change operations may
\* return ChangeResult::Error.
container_state_update_failing ==
    /\ UNCHANGED <<change_data_channel, fresh_data_channel, data,
                   has_changed, dropped, container_dropped, next_id,
                   view, paged>>
    /\ \E polled \in SUBSET OpIds :
       \E failing \in SUBSET {change_channel[k].id : k \in DOMAIN change_channel} :
        \E c \in {state_update([Container EXCEPT !.failing = failing], polled)} :
           /\ storage' = c.storage
           /\ change_channel' = c.change_channel
           /\ query_channel' = c.query_channel
           /\ running_actions' = c.running_actions
           /\ comm_to_info' = c.comm_to_info
           /\ sending_responses' = c.sending_responses
           /\ replies' = c.replies
           /\ handed' = c.handed
           /\ log' = c.log

StepFailing ==
    \/ insert
    \/ insert_many
    \/ update
    \/ update_many
    \/ delete
    \/ delete_many
    \/ query
    \/ container_state_update_failing
    \/ sender_send
    \/ communicator_state_update

StepDropped ==
    \/ Step
    \/ drop_communicator
    \/ sender_send_closed

\* The started application when communicators may be dropped.
SpecDropped == InitStarted /\ [][StepDropped]_vars

StepAbandon ==
    \/ insert
    \/ insert_many
    \/ update
    \/ update_many
    \/ delete
    \/ delete_many
    \/ query
    \/ abandon
    \/ container_state_update
    \/ sender_send
    \/ communicator_state_update

\* The started application when clients may drop the futures of their
\* operations.
SpecAbandon == InitStarted /\ [][StepAbandon]_vars

StepContainerDropped ==
    \/ ~container_dropped /\ insert
    \/ ~container_dropped /\ insert_many
    \/ ~container_dropped /\ update
    \/ ~container_dropped /\ update_many
    \/ ~container_dropped /\ delete
    \/ ~container_dropped /\ delete_many
    \/ ~container_dropped /\ query
    \/ ~container_dropped /\ container_state_update
    \/ drop_container
    \/ future_closed
    \/ sender_send
    \/ communicator_state_update

\* The started application when the DataContainer may be dropped.
SpecContainerDropped == InitStarted /\ [][StepContainerDropped]_vars

\* The started application over a storage that may fail a change.
SpecFailing == InitStarted /\ [][StepFailing]_vars

\* The application with a communicator that never calls state_update.  Both
\* communicators have queried All over a store with a row for every key;
\* then MailboxCapacity updates that rewrite the row of the first key were
\* submitted, one after the other, each resolved and fanned out before the
\* next.  The other communicator has applied everything it was sent; the
\* stalled one has applied nothing, so its FreshData and the
\* MailboxCapacity deltas wait in its channels, and the channel of deltas
\* is full.  All the sends are done and reaped.
StalledUuid == StartedUuid
FirstKey == CHOOSE k \in Keys : \A other \in Keys : k <= other

InitStalled ==
    /\ storage = {[key |-> k, val |-> 0] : k \in Keys}
    /\ change_channel = <<>>
    /\ query_channel = <<>>
    /\ running_actions = <<>>
    /\ comm_to_info = [uuid \in Uuids |->
            [value_keys |-> MapKeys(storage), last_query |-> QAll]]
    /\ sending_responses = <<>>
    /\ change_data_channel = [uuid \in Uuids |->
            IF uuid = StalledUuid
            THEN [i \in 1..MailboxCapacity |->
                    [kind |-> "change",
                     payload |-> DataChange("Update", <<[key |-> FirstKey, val |-> 0]>>),
                     n |-> i + 1]]
            ELSE <<>>]
    /\ fresh_data_channel = [uuid \in Uuids |->
            IF uuid = StalledUuid
            THEN <<[kind |-> "fresh", payload |-> storage, n |-> 1]>>
            ELSE <<>>]
    /\ data = [uuid \in Uuids |-> IF uuid = StalledUuid THEN {} ELSE storage]
    /\ has_changed = [uuid \in Uuids |-> TRUE]
    /\ dropped = {}
    /\ container_dropped = FALSE
    /\ view = DataNew
    /\ paged = NotCalled
    /\ replies = [id \in OpIds |-> "unsent"]
    /\ next_id = 1
    /\ handed = [uuid \in Uuids |-> MailboxCapacity + 1]
    /\ log = <<>>

\* Communicator::state_update of a communicator that is not the stalled one
communicator_state_update_others ==
    \E uuid \in Registered \ (dropped \cup {StalledUuid}) :
        communicator_state_update_of(uuid)

\* The application with a backlog: the communicator that has not called
\* state_update so far, and whose channel of deltas is full, calls it from
\* now on like the others, while changes are submitted.
StepBacklog ==
    \/ insert
    \/ insert_many
    \/ update
    \/ update_many
    \/ delete
    \/ delete_many
    \/ container_state_update
    \/ sender_send
    \/ communicator_state_update

SpecBacklog == InitStalled /\ [][StepBacklog]_vars

\* ENABLED <<container_state_update>>_vars, as a state predicate: a step of
\* DataContainer::state_update changes the state iff there is something to
\* drain, to resolve or to reap, or the log of the last step to replace.
TickEnabled ==
    \/ change_channel # <<>>
    \/ query_channel # <<>>
    \/ running_actions # <<>>
    \/ \E k \in DOMAIN sending_responses : sending_responses[k].done
    \/ log # <<>>

\* The steps of the application that are steps of
\* DataContainer::state_update, told by what they leave alone and what
\* they leave behind.
TickStep ==
    /\ UNCHANGED <<next_id, change_data_channel, fresh_data_channel, data,
                   has_changed, dropped, container_dropped,
                   view, paged>>
    /\ change_channel' = <<>>
    /\ query_channel' = <<>>
    /\ \A k \in DOMAIN sending_responses' : ~sending_responses'[k].done

StepStalled ==
    \/ insert
    \/ insert_many
    \/ update
    \/ update_many
    \/ delete
    \/ delete_many
    \/ query
    \/ container_state_update
    \/ sender_send
    \/ communicator_state_update_others

SpecStalled == InitStalled /\ [][StepStalled]_vars

\* The application calls DataContainer::state_update in every frame and the
\* operations of the storage finish, the runtime runs every spawned send
\* that can proceed, and the communicators that are not stalled keep calling
\* state_update.  The last conjunct is WF_vars(container_state_update)
\* written out, with TickEnabled for ENABLED <<container_state_update>>_vars
\* and TickStep for the step.
SpecStalledFair ==
    /\ SpecStalled
    /\ WF_vars(sender_send)
    /\ WF_vars(communicator_state_update_others)
    /\ ([]<>(~TickEnabled) \/ []<><<TickStep>>_vars)

\* Communicator::set_viewed
set_viewed_of(uuid) ==
    /\ has_changed' = [has_changed EXCEPT ![uuid] = FALSE]
    /\ log' = <<>>
    /\ UNCHANGED <<storage, change_channel, query_channel, running_actions,
                   comm_to_info, sending_responses, change_data_channel,
                   fresh_data_channel, data, dropped, container_dropped,
                   replies, next_id, handed,
                   view, paged>>

set_viewed ==
    \E uuid \in Registered \ dropped : set_viewed_of(uuid)


\* ------------------------------------------- senders of the submissions
\* Reciver.bk_change_sender, and Reciver.bk_query_sender: the sender of
\* each submission channel that Reciver::default keeps in the Reciver.
bk_senders == 1

\* Variant of Reciver in which the container keeps no sender of its own:
\* the senders alive are those of the communicators.
live_senders_without_backup == Cardinality(Registered \ dropped)

\* The senders of a submission channel that are alive: the one the Reciver
\* keeps, and the clone of it that Reciver::senders gave to every
\* Communicator that was not dropped.
live_senders == bk_senders + Cardinality(Registered \ dropped)

\* What the try_recv that ends the loop of Reciver::loop_recive_all
\* returns, once the channel is empty.
loop_recive_all_end ==
    IF live_senders = 0 THEN "Disconnected" ELSE "Empty"

\* ------------------------------------------------ communicators one by one
\* The map with one more entry
MapPut(f, k, x) == [u \in DOMAIN f \cup {k} |-> IF u = k THEN x ELSE f[u]]

\* Variant of DataContainer::communicator that registers the senders and
\* not the interest record.
communicator_of_senders_only(uuid) ==
    /\ uuid \notin DOMAIN change_data_channel
    /\ ~container_dropped
    /\ change_data_channel' = MapPut(change_data_channel, uuid, <<>>)
    /\ fresh_data_channel' = MapPut(fresh_data_channel, uuid, <<>>)
    /\ data' = MapPut(data, uuid, {})
    /\ has_changed' = MapPut(has_changed, uuid, TRUE)
    /\ handed' = MapPut(handed, uuid, 0)
    /\ log' = <<>>
    /\ UNCHANGED <<storage, change_channel, query_channel, running_actions,
                   comm_to_info, sending_responses, dropped, container_dropped,
                   replies, next_id, view, paged>>

\* DataContainer::communicator, with new_uuid the Uuid::new_v4() it draws:
\* UpdateSender::register_senders, CommunicatorInfo::register_comm and
\* Communicator::new.
communicator_of(uuid) ==
    /\ uuid \notin DOMAIN change_data_channel
    /\ ~container_dropped
    /\ change_data_channel' = MapPut(change_data_channel, uuid, <<>>)
    /\ fresh_data_channel' = MapPut(fresh_data_channel, uuid, <<>>)
    /\ comm_to_info' = MapPut(comm_to_info, uuid, InfoDefault)
    /\ data' = MapPut(data, uuid, {})
    /\ has_changed' = MapPut(has_changed, uuid, TRUE)
    /\ handed' = MapPut(handed, uuid, 0)
    /\ log' = <<>>
    /\ UNCHANGED <<storage, change_channel, query_channel, running_actions,
                   sending_responses, dropped, container_dropped, replies,
                   next_id, view, paged>>

communicator == \E uuid \in Uuids : communicator_of(uuid)

\* The application that creates its communicators one at a time, between
\* its other calls.
StepRegistry ==
    \/ communicator
    \/ insert
    \/ query
    \/ container_state_update
    \/ sender_send
    \/ communicator_state_update

\* The container as DataContainer::new leaves it, with an empty store.
InitRegistry == Init /\ storage = {}

SpecRegistry == InitRegistry /\ [][StepRegistry]_vars

\* ----------------------------------------- with and without a first query
\* The application over a store that holds a row for every key: it creates
\* its communicators, which insert, update, delete, query or never query,
\* and mark their views as seen.
InitFilled == Init /\ storage = {[key |-> k, val |-> 0] : k \in Keys}

StepFilled ==
    \/ communicators
    \/ insert
    \/ update
    \/ delete
    \/ query
    \/ set_viewed
    \/ container_state_update
    \/ sender_send
    \/ communicator_state_update

SpecFilled == InitFilled /\ [][StepFilled]_vars

\* ---------------------------------------------------------- a Data alone
\* A Data as a Communicator holds it, with the calls Communicator makes on
\* it: Data::update_data and Data::add_fresh_data from
\* Communicator::state_update, Data::new_sorting_fn from Communicator::sort,
\* and Data::page.  The container is idle.
view_unchanged_rest ==
    UNCHANGED <<storage, change_channel, query_channel, running_actions,
                comm_to_info, sending_responses, change_data_channel,
                fresh_data_channel, data, has_changed, dropped,
                container_dropped, replies, next_id, handed, log>>

\* Data::update_data of DataChange::Insert
view_insert_call ==
    \E values \in ViewValueLists :
        \E order \in IterationOrders(data_insert(Range(view.values), values)) :
            /\ view' = view_insert(view, values, order)
            /\ paged' = NotCalled
            /\ view_unchanged_rest

\* Data::update_data of DataChange::Update
view_update_call ==
    \E values \in ViewValueLists :
        /\ view' = view_update(view, values)
        /\ paged' = NotCalled
        /\ view_unchanged_rest

\* Data::update_data of DataChange::Delete
view_delete_call ==
    \E keys \in ViewKeyLists :
        \E order \in IterationOrders(data_delete(Range(view.values), keys)) :
            /\ view' = view_delete(view, keys, order)
            /\ paged' = NotCalled
            /\ view_unchanged_rest

\* Data::add_fresh_data
view_fresh_call ==
    \E fresh \in ViewFreshData :
        \E order \in IterationOrders(add_fresh_data(Range(view.values), fresh)) :
            /\ view' = view_extend(view, fresh, order)
            /\ paged' = NotCalled
            /\ view_unchanged_rest

\* Communicator::sort
sort_with(f) ==
    /\ view' = new_sorting_fn(view, f)
    /\ paged' = NotCalled
    /\ view_unchanged_rest

sort == \E f \in Comparators : sort_with(f)

\* Data::page
page_call ==
    \E p \in 0..MaxPage, per_page \in 0..MaxPerPage :
        /\ paged' = [page |-> p, per_page |-> per_page,
                     result |-> page(view, p, per_page)]
        /\ UNCHANGED view
        /\ view_unchanged_rest

InitData == Init /\ storage = {}

StepData ==
    \/ view_insert_call
    \/ view_update_call
    \/ view_delete_call
    \/ view_fresh_call
    \/ sort
    \/ page_call

SpecData == InitData /\ [][StepData]_vars

\* The round trip of tests.rs, from the step of DataContainer::state_update
\* that resolved its insert.  The store held a row for every key but the
\* first; every communicator completed query(All) and applied the rows it
\* was returned; then insert of the row InsertedRow was submitted, drained
\* and resolved: it is in the storage, its key is known for every
\* communicator, its reply was given and the delta of every communicator is
\* in the pool.  The operations counted by MaxOps are the update and the
\* delete that follow, each submitted once the one before was replied to.
InsertedRow == [key |-> FirstKey, val |-> 0]
UpdatedRow == [key |-> FirstKey, val |-> MaxVal]

InitInserted ==
    /\ storage = {[key |-> k, val |-> 0] : k \in Keys}
    /\ change_channel = <<>>
    /\ query_channel = <<>>
    /\ running_actions = <<>>
    /\ comm_to_info = [uuid \in Uuids |->
            [value_keys |-> MapKeys(storage), last_query |-> QAll]]
    /\ sending_responses = [uuid \in Uuids |->
            SendTask(uuid, "change", DataChange("Insert", <<InsertedRow>>), 2)]
    /\ change_data_channel = [uuid \in Uuids |-> <<>>]
    /\ fresh_data_channel = [uuid \in Uuids |-> <<>>]
    /\ data = [uuid \in Uuids |-> storage \ {InsertedRow}]
    /\ has_changed = [uuid \in Uuids |-> TRUE]
    /\ dropped = {}
    /\ container_dropped = FALSE
    /\ view = DataNew
    /\ paged = NotCalled
    /\ replies = [id \in OpIds |-> "unsent"]
    /\ next_id = 1
    /\ handed = [uuid \in Uuids |-> 2]
    /\ log = <<>>

\* Communicator::update of the inserted row, then Communicator::delete of
\* its key once the update was replied to.
update_inserted ==
    /\ next_id = 1
    /\ send_change_future([t |-> "Update", items |-> <<UpdatedRow>>])

delete_inserted ==
    /\ next_id = 2
    /\ replies[1] = "Success"
    /\ send_change_future([t |-> "Delete", items |-> <<FirstKey>>])

StepRoundTrip ==
    \/ update_inserted
    \/ delete_inserted
    \/ container_state_update
    \/ sender_send
    \/ communicator_state_update

SpecRoundTrip == InitInserted /\ [][StepRoundTrip]_vars

\* The started application when it calls DataContainer::state_update in
\* every frame and the operations of the storage finish, and the runtime
\* runs every spawned send that can proceed.  The last conjunct is
\* WF_vars(container_state_update) written out, as in SpecStalledFair.
SpecStartedFair ==
    /\ SpecStarted
    /\ WF_vars(sender_send)
    /\ ([]<>(~TickEnabled) \/ []<><<TickStep>>_vars)

\* ------------------------------------------------------------- properties
\* Q.matches(v) as the specification states it.
Matches(q, value) ==
    \/ q.t = "All"
    \/ q.t = "GetById" /\ q.key = value.key
    \/ q.t = "GetByIds" /\ \E i \in DOMAIN q.keys : q.keys[i] = value.key
    \/ q.t = "Predicate" /\ predicate(value)

\* The fan-outs and the returned queries of the step just taken.
FanOuts == {log[i] : i \in {j \in DOMAIN log : log[j].kind = "Change"}}
Returns == {log[i] : i \in {j \in DOMAIN log : log[j].kind = "Query"}}

\* The key of an element of a DataChange.
ItemKey(change, item) == IF change.t = "Delete" THEN item ELSE item.key

\* The deltas a fan-out handed to communicator u.
DeltasFor(e, u) ==
    {e.communicators[i].change :
        i \in {j \in DOMAIN e.communicators : e.communicators[j].target = u}}

\* The sends a step spawned, in the order the log gives.
RECURSIVE Spawned(_)
Spawned(l) ==
    IF l = <<>> THEN <<>>
    ELSE LET e == Head(l)
             here == CASE e.kind = "Change" ->
                            [i \in DOMAIN e.communicators |->
                                [target |-> e.communicators[i].target, kind |-> "change",
                                 payload |-> e.communicators[i].change]]
                       [] e.kind = "Query" ->
                            <<[target |-> e.communicator, kind |-> "fresh",
                               payload |-> e.values]>>
                       [] e.kind = "Recived" -> <<>>
         IN here \o Spawned(Tail(l))

\* What the log says was handed over is what the pool holds at its end, not
\* yet sent.
LogIsSpawned ==
    LET new == Spawned(log)
        off == Len(sending_responses) - Len(new)
    IN /\ off >= 0
       /\ \A i \in DOMAIN new :
            LET task == sending_responses[off + i]
            IN /\ ~task.done
               /\ [target |-> task.target, kind |-> task.kind, payload |-> task.payload]
                    = new[i]

\* C1. Interest closure: every key of a delta handed to communicator U was
\* in U's known keys before the fan-out, or the delta is an Insert and the
\* value satisfies U's standing query.
C1_InterestClosure ==
    /\ LogIsSpawned
    /\ \A e \in FanOuts : \A u \in DOMAIN e.before : \A delta \in DeltasFor(e, u) :
        \A x \in DOMAIN delta.items :
            \/ ItemKey(delta, delta.items[x]) \in e.before[u].value_keys
            \/ /\ delta.t = "Insert"
               /\ e.before[u].last_query # NoQuery
               /\ Matches(e.before[u].last_query, delta.items[x])

\* A communicator is handed an Insert with a key it did not know.
C1_Witness ==
    \E e \in FanOuts : \E u \in DOMAIN e.before : \E delta \in DeltasFor(e, u) :
        /\ delta.t = "Insert"
        /\ \E x \in DOMAIN delta.items :
                delta.items[x].key \notin e.before[u].value_keys

\* The part of an Insert the specification projects for a communicator.
InsertProjection(info, values) ==
    SelectSeq(values,
        LAMBDA value :
            \/ value.key \in info.value_keys
            \/ info.last_query # NoQuery /\ Matches(info.last_query, value))

\* C2. Insert projection: when an Insert is fanned out, each communicator is
\* handed exactly the sub-list of the values whose key it knows or that
\* match its standing query, and is handed a delta iff that sub-list is not
\* empty.
C2_InsertProjection ==
    /\ LogIsSpawned
    /\ \A e \in FanOuts : e.update.t = "Insert" =>
        \A u \in DOMAIN e.before :
            LET expected == InsertProjection(e.before[u], e.update.items)
                mine == {i \in DOMAIN e.communicators : e.communicators[i].target = u}
            IN /\ Cardinality(mine) = IF expected = <<>> THEN 0 ELSE 1
               /\ \A i \in mine : e.communicators[i].change = DataChange("Insert", expected)

\* An Insert of two values is fanned out, and a communicator is handed only
\* one of them, a value it did not know and that matches its standing query.
C2_Witness ==
    \E e \in FanOuts : \E u \in DOMAIN e.before : \E delta \in DeltasFor(e, u) :
        /\ e.update.t = "Insert"
        /\ Len(delta.items) < Len(e.update.items)
        /\ \E x \in DOMAIN delta.items :
                delta.items[x].key \notin e.before[u].value_keys

\* The part of an Update or Delete the specification projects.
KnownProjection(info, change) ==
    SelectSeq(change.items, LAMBDA item : ItemKey(change, item) \in info.value_keys)

\* C3. Update and Delete projection: when an Update or a Delete is fanned
\* out, each communicator is handed only the elements whose key it knows,
\* and is skipped when none remains; the standing query plays no part.
C3_KnownProjection ==
    /\ LogIsSpawned
    /\ \A e \in FanOuts : e.update.t \in {"Update", "Delete"} =>
        \A u \in DOMAIN e.before :
            LET expected == KnownProjection(e.before[u], e.update)
                mine == {i \in DOMAIN e.communicators : e.communicators[i].target = u}
            IN /\ Cardinality(mine) = IF expected = <<>> THEN 0 ELSE 1
               /\ \A i \in mine : e.communicators[i].change = DataChange(e.update.t, expected)

\* An Update is fanned out with a value that satisfies the standing query of
\* a communicator that does not know the key, and that communicator is
\* handed nothing.
C3_Witness ==
    \E e \in FanOuts : \E u \in DOMAIN e.before :
        /\ e.update.t = "Update"
        /\ e.before[u].last_query # NoQuery
        /\ \E x \in DOMAIN e.update.items :
                /\ Matches(e.before[u].last_query, e.update.items[x])
                /\ e.update.items[x].key \notin e.before[u].value_keys
        /\ DeltasFor(e, u) = {}

\* The last fan-out or returned query of the step just taken, if any.
Resolved == {i \in DOMAIN log : log[i].kind # "Recived"}
LastResolved == CHOOSE i \in Resolved : \A j \in Resolved : j <= i

\* C7. Query resets knowledge: right after the container returns the rows F
\* of a successful query to communicator U, the known keys of U are exactly
\* the keys of F, the known keys of every other communicator are what they
\* were, and F is handed to the pool for U.  The registry the step leaves is
\* the one the last resolution left.
C7_QueryResetsKnowledge ==
    /\ LogIsSpawned
    /\ \A e \in Returns :
        /\ e.after[e.communicator].value_keys = MapKeys(e.values)
        /\ \A u \in DOMAIN e.before :
                u # e.communicator => e.after[u].value_keys = e.before[u].value_keys
    /\ Resolved # {} =>
            \A u \in Registered :
                comm_to_info[u].value_keys = log[LastResolved].after[u].value_keys

\* A query is returned to a communicator that knew a key the rows returned
\* do not hold, while another communicator knows some key.
C7_Witness ==
    \E e \in Returns :
        /\ e.before[e.communicator].value_keys \ MapKeys(e.values) # {}
        /\ log[LastResolved] = e
        /\ comm_to_info[e.communicator].value_keys = MapKeys(e.values)

\* C10. Tick ordering: in the step of DataContainer::state_update the
\* finished sends are reaped first, then the finished storage operations
\* are resolved and fanned out, and the submissions are drained last; an
\* operation drained in a step is running at its end, has no reply, and was
\* not fanned out or returned in that step.
C10_TickOrdering ==
    /\ \A i \in DOMAIN log : \A j \in DOMAIN log :
            log[i].kind = "Recived" /\ log[j].kind # "Recived" => j < i
    /\ \A i \in DOMAIN log : log[i].kind = "Recived" =>
            /\ replies[log[i].id] = "pending"
            /\ \E k \in DOMAIN running_actions : running_actions[k].id = log[i].id
            /\ \A j \in DOMAIN log : log[j].kind # "Recived" => log[j].id # log[i].id
    /\ log # <<>> => \A k \in DOMAIN sending_responses : ~sending_responses[k].done

\* One step resolves an operation and drains another, which stays running.
C10_Witness ==
    /\ Resolved # {}
    /\ \E i \in DOMAIN log :
            /\ log[i].kind = "Recived"
            /\ \E k \in DOMAIN running_actions : running_actions[k].id = log[i].id

\* Nothing is submitted, running, being sent or waiting in a mailbox.
Quiescent ==
    /\ Registered # {}
    /\ change_channel = <<>>
    /\ query_channel = <<>>
    /\ running_actions = <<>>
    /\ \A k \in DOMAIN sending_responses : sending_responses[k].done
    /\ \A u \in Registered : change_data_channel[u] = <<>> /\ fresh_data_channel[u] = <<>>

\* C4. Per-recipient FIFO of deltas: the change mailbox of a communicator
\* holds the deltas in the order the container handed them to the pool, and
\* no delta handed over earlier is still to be sent.
C4_DeltaFifo ==
    \A u \in Registered :
        /\ \A i \in DOMAIN change_data_channel[u] : \A j \in DOMAIN change_data_channel[u] :
                i < j => change_data_channel[u][i].n < change_data_channel[u][j].n
        /\ \A k \in DOMAIN sending_responses :
                LET task == sending_responses[k]
                IN task.target = u /\ task.kind = "change" /\ ~task.done =>
                        \A i \in DOMAIN change_data_channel[u] :
                            change_data_channel[u][i].n < task.n

\* C5. Per-recipient FIFO across both mailboxes: a delta and a FreshData
\* that wait for the same Communicator::state_update are applied in the
\* order the container produced them.
C5_MailboxFifo ==
    \A u \in Registered :
        LET actions == recive_new(change_data_channel[u], fresh_data_channel[u])
        IN \A i \in DOMAIN actions : \A j \in DOMAIN actions :
                i < j /\ actions[i].kind # actions[j].kind => actions[i].n < actions[j].n

\* C6. Single point of truth: at quiescence the view of a communicator
\* whose last query is All holds the rows of the storage.
C6_SinglePointOfTruth ==
    Quiescent =>
        \A u \in Registered : comm_to_info[u].last_query = QAll => data[u] = storage

\* C8. The known keys mirror the view: when nothing waits in the mailboxes
\* of a communicator and no send to it is running, its known keys are the
\* keys of its view.
C8_KnownMirrorsView ==
    \A u \in Registered :
        ( /\ change_data_channel[u] = <<>>
          /\ fresh_data_channel[u] = <<>>
          /\ \A k \in DOMAIN sending_responses :
                sending_responses[k].target = u => sending_responses[k].done )
        => comm_to_info[u].value_keys = MapKeys(data[u])

\* C9. Known keys are live rows: at quiescence every known key of every
\* communicator is the key of a row of the storage.
C9_KnownKeysLive ==
    Quiescent =>
        \A u \in Registered : comm_to_info[u].value_keys \subseteq MapKeys(storage)

\* Nothing is submitted, no storage operation runs and no send is still to
\* complete.
Idle ==
    /\ change_channel = <<>>
    /\ query_channel = <<>>
    /\ running_actions = <<>>
    /\ \A k \in DOMAIN sending_responses : sending_responses[k].done

\* C11 as stated. Idle step is a no-op: DataContainer::state_update in an
\* idle state leaves the registry, the running actions, the pool of sends
\* and every mailbox as they were.
C11_IdleStepNoOp ==
    [][Idle /\ container_state_update =>
            UNCHANGED <<comm_to_info, running_actions, sending_responses,
                        change_data_channel, fresh_data_channel>>]_vars

\* C11. Idle step: DataContainer::state_update in an idle state leaves the
\* registry, the running actions, the storage, the replies and every
\* mailbox as they were, and removes from the pool the sends that have
\* completed, so that the pool is empty afterwards.
C11_IdleStepReaps ==
    [][Idle /\ container_state_update =>
            /\ UNCHANGED <<comm_to_info, running_actions, change_data_channel,
                           fresh_data_channel, storage, replies, change_channel,
                           query_channel>>
            /\ sending_responses' = <<>>]_vars

\* An idle state with a registry that holds keys and a standing query, and
\* a completed send in the pool.
C11_Witness ==
    /\ Idle
    /\ sending_responses # <<>>
    /\ \E u \in Registered :
            comm_to_info[u].value_keys # {} /\ comm_to_info[u].last_query # NoQuery

\* The changes the step just taken drained from the submission stream.
RecivedChanges ==
    {log[i] : i \in {j \in DOMAIN log : log[j].kind = "Recived" /\ "action" \in DOMAIN log[j]}}

\* C12. Empty short-circuit: an InsertMany, UpdateMany or DeleteMany of no
\* element is started without a call of the storage; when it resolves, the
\* reply is Success, no communicator is handed a delta and no known set
\* changes; no send and no mailbox ever carries an empty delta, so no
\* has_changed flag is set by it.
C12_EmptyShortCircuit ==
    /\ LogIsSpawned
    /\ \A e \in RecivedChanges : ChangeTypeIsEmpty(e.action) => ~e.invoked
    /\ \A e \in FanOuts : e.update.items = <<>> =>
            /\ replies[e.id] = "Success"
            /\ e.communicators = <<>>
            /\ e.after = e.before
    /\ \A k \in DOMAIN sending_responses :
            sending_responses[k].kind = "change" => sending_responses[k].payload.items # <<>>
    /\ \A u \in Registered : \A i \in DOMAIN change_data_channel[u] :
            change_data_channel[u][i].payload.items # <<>>

\* An empty InsertMany resolves while a communicator has All as its
\* standing query.
C12_Witness ==
    \E e \in FanOuts :
        /\ e.update = DataChange("Insert", <<>>)
        /\ replies[e.id] = "Success"
        /\ \E u \in DOMAIN e.before : e.before[u].last_query = QAll

\* The operations held in running_actions, and those still in a submission
\* stream.
RunningIds == {running_actions[k].id : k \in DOMAIN running_actions}
SubmittedIds ==
    {change_channel[k].id : k \in DOMAIN change_channel}
        \cup {query_channel[k].id : k \in DOMAIN query_channel}

\* An operation waits for its reply exactly while it is submitted or
\* running, and it is held once.
HeldUntilReplied ==
    /\ \A id \in OpIds : replies[id] = "pending" <=> id \in RunningIds \cup SubmittedIds
    /\ RunningIds \cap SubmittedIds = {}
    /\ Cardinality(RunningIds) = Len(running_actions)

\* A reply is sent in the step that removes the operation from
\* running_actions, and a reply that was sent is never replaced.
RepliedOnce ==
    \A id \in OpIds :
        /\ replies[id] \in {"Success", "Error"} => replies'[id] = replies[id]
        /\ replies[id] = "pending" /\ replies'[id] # "pending" =>
                /\ replies'[id] \in {"Success", "Error"}
                /\ id \in RunningIds
                /\ id \notin {running_actions'[k].id : k \in DOMAIN running_actions'}

\* C13. Exactly one reply per operation: a drained operation is held in
\* running_actions without a reply until a step finds it finished; that
\* step removes it and sends its one result, Success or Error, which no
\* later step replaces.
C13_ExactlyOneReply == []HeldUntilReplied /\ [][RepliedOnce]_vars

\* A step has just resolved an operation with Success and removed it, while
\* another operation is still running without a reply.
C13_Witness ==
    /\ Resolved # {}
    /\ replies[log[LastResolved].id] = "Success"
    /\ log[LastResolved].id \notin RunningIds
    /\ \E id \in RunningIds : replies[id] = "pending"

\* The running change with this id whose storage operation returned
\* ChangeResult::Error.
FailedChange(id) ==
    \E k \in DOMAIN running_actions :
        /\ running_actions[k].id = id
        /\ running_actions[k].kind = "Change"
        /\ running_actions[k].result = "Error"

\* The sends of the pool without their history.
PoolTasks(pool) ==
    [k \in DOMAIN pool |->
        [target |-> pool[k].target, kind |-> pool[k].kind, payload |-> pool[k].payload]]

\* What a step of DataContainer::state_update did to the registry and to
\* the pool is what its log tells: the known keys change from one fan-out
\* or returned query to the next, a standing query changes only for a
\* communicator with a submitted query, and the sends added are those of
\* the fan-outs and returned queries.
StepIsLogged ==
    LET n == Cardinality({i \in DOMAIN log' : log'[i].kind # "Recived"})
        keys(infos) == [u \in DOMAIN infos |-> infos[u].value_keys]
    IN /\ \A i \in 1..n : log'[i].kind # "Recived"
       /\ n = 0 => keys(comm_to_info') = keys(comm_to_info)
       /\ n > 0 => /\ log'[1].before = comm_to_info
                   /\ \A i \in 1..(n - 1) : log'[i + 1].before = log'[i].after
                   /\ keys(comm_to_info') = keys(log'[n].after)
       /\ \A u \in Registered :
            comm_to_info'[u].last_query # comm_to_info[u].last_query =>
                \E k \in DOMAIN query_channel : query_channel[k].origin_uuid = u
       /\ PoolTasks(sending_responses') =
            PoolTasks(SelectSeq(sending_responses, LAMBDA e : ~e.done)) \o Spawned(log')

\* C14. Failed change: in the step that resolves a change whose storage
\* operation returned ChangeResult::Error, the reply is Error, the change
\* is not fanned out, and the registry and the pool change only by what the
\* other operations resolved and drained in that step do.
C14_FailedChangeNoEffect ==
    [][\A id \in OpIds :
            FailedChange(id) /\ replies[id] = "pending" /\ replies'[id] # "pending" =>
                /\ replies'[id] = "Error"
                /\ \A i \in DOMAIN log' : log'[i].id # id
                /\ StepIsLogged]_vars

\* The one change submitted, of rows a communicator with the standing query
\* All knows, failed in the storage and has been replied to with Error; no
\* send was spawned.
C14_Witness ==
    /\ \E id \in OpIds : replies[id] = "Error"
    /\ \E u \in Registered : comm_to_info[u].last_query = QAll /\ comm_to_info[u].value_keys # {}
    /\ log = <<>>
    /\ running_actions = <<>>
    /\ sending_responses = <<>>
    /\ next_id = 2

\* The running query with this id whose response is an error.
FailedQuery(id) ==
    \E k \in DOMAIN running_actions :
        /\ running_actions[k].id = id
        /\ running_actions[k].kind = "Query"
        /\ ~running_actions[k].response.ok

\* C15. Failed query: in the step that resolves a query whose response is
\* an error, the reply is Error, no rows are returned or handed to the
\* pool for it, and the known keys change only by what the other
\* operations resolved in that step do; the step puts nothing in a mailbox.
C15_FailedQueryDeliversNothing ==
    [][\A id \in OpIds :
            FailedQuery(id) /\ replies[id] = "pending" /\ replies'[id] # "pending" =>
                /\ replies'[id] = "Error"
                /\ \A i \in DOMAIN log' : log'[i].id # id
                /\ StepIsLogged
                /\ UNCHANGED <<change_data_channel, fresh_data_channel>>]_vars

\* The only communicator that queried knows a key from its first query and
\* got Error for its second, a GetById or GetByIds query; it still knows
\* its keys and no send is running.
C15_Witness ==
    \E u \in Registered :
        /\ comm_to_info[u].last_query.t \in {"GetById", "GetByIds"}
        /\ comm_to_info[u].value_keys # {}
        /\ \A other \in Registered \ {u} : comm_to_info[other].last_query = NoQuery
        /\ replies[2] = "Error"
        /\ replies[1] = "Success"
        /\ running_actions = <<>>
        /\ \A k \in DOMAIN sending_responses : sending_responses[k].done

\* ---------------------------------------------------------------------------
\* C16: Dropped communicator is unregistered.  A Container.state_update that
\* runs while a communicator is dropped leaves the registry without that
\* communicator's interest record, and spawns no send that targets it.
C16_DroppedUnregistered ==
    [][container_state_update =>
        \A uuid \in dropped :
            /\ uuid \notin DOMAIN comm_to_info'
            /\ \A j \in DOMAIN sending_responses' :
                   sending_responses'[j].target # uuid]_vars

C16_Witness ==
    /\ dropped # {}
    /\ log # <<>>
    /\ \E i \in DOMAIN sending_responses :
           /\ sending_responses[i].target \in dropped
           /\ sending_responses[i].kind = "change"
           /\ ~sending_responses[i].done

\* The part of a mutation the specification projects for a communicator.
Projection(info, change) ==
    IF change.t = "Insert"
    THEN DataChange("Insert", InsertProjection(info, change.items))
    ELSE DataChange(change.t, KnownProjection(info, change))

\* Every registered communicator, dropped or not, still has the senders of
\* its two channels in the UpdateSender, so that send_change finds the
\* sender it unwraps and update_query the record it looks up.
NoPanic ==
    /\ Registered \subseteq DOMAIN change_data_channel
    /\ Registered \subseteq DOMAIN fresh_data_channel
    /\ \A i \in DOMAIN sending_responses :
            sending_responses[i].target \in Registered
    /\ \A i \in DOMAIN query_channel : query_channel[i].origin_uuid \in Registered

\* The communicators that are not dropped are handed what the step projects
\* for them: a send, not yet done, for each non-empty projection of a
\* fan-out and for each returned query.
OthersAreServed ==
    /\ LogIsSpawned
    /\ \A e \in FanOuts : \A u \in Registered \ dropped :
            Len(Projection(e.before[u], e.update).items) # 0 =>
                /\ DeltasFor(e, u) = {Projection(e.before[u], e.update)}
                /\ \E j \in DOMAIN sending_responses :
                        /\ sending_responses[j].target = u
                        /\ sending_responses[j].kind = "change"
                        /\ sending_responses[j].payload = Projection(e.before[u], e.update)
                        /\ ~sending_responses[j].done
    /\ \A e \in Returns : e.communicator \notin dropped =>
            \E j \in DOMAIN sending_responses :
                /\ sending_responses[j].target = e.communicator
                /\ sending_responses[j].kind = "fresh"
                /\ sending_responses[j].payload = e.values
                /\ ~sending_responses[j].done

\* C17. Recipient drop is not fatal: once a communicator is dropped, every
\* DataContainer::state_update still runs, the pool it leaves holds no
\* finished send (the sends to the closed channel, ended with an error, are
\* reaped like the delivered ones), the sends it adds are those of its
\* fan-outs and returned queries, and the communicators that are not
\* dropped are handed their deltas and fresh data; a drop touches no other
\* communicator's channels.
C17_RecipientDropNotFatal ==
    /\ [](dropped # {} => NoPanic /\ OthersAreServed)
    /\ [][dropped # {} /\ container_state_update =>
            /\ \A j \in DOMAIN sending_responses' : ~sending_responses'[j].done
            /\ StepIsLogged]_vars
    /\ [][drop_communicator =>
            \A u \in Registered \ dropped' :
                /\ change_data_channel'[u] = change_data_channel[u]
                /\ fresh_data_channel'[u] = fresh_data_channel[u]]_vars

\* A send to a dropped communicator ended with an error and waits in the
\* pool, next to a delta for a communicator that is not dropped.
C17_Witness ==
    /\ \E i \in DOMAIN sending_responses :
            /\ sending_responses[i].err
            /\ sending_responses[i].target \in dropped
    /\ \E j \in DOMAIN sending_responses :
            /\ sending_responses[j].target \notin dropped
            /\ sending_responses[j].kind = "change"

\* A delta with tag n for communicator u waits in the pool, not yet sent.
PendingDelta(u, n) ==
    \E k \in DOMAIN sending_responses :
        /\ sending_responses[k].target = u
        /\ sending_responses[k].kind = "change"
        /\ sending_responses[k].n = n
        /\ ~sending_responses[k].done

\* The delta with tag n is in the channel of communicator u.
DeliveredDelta(u, n) ==
    \E i \in DOMAIN change_data_channel[u] :
        change_data_channel[u][i].kind = "change" /\ change_data_channel[u][i].n = n

\* The sends of the pool that are not yet done are kept by the step, in
\* their order, before the sends the step adds.
UnsentAreKept ==
    LET unsent == SelectSeq(sending_responses, LAMBDA e : ~e.done)
    IN /\ Len(sending_responses') >= Len(unsent)
       /\ SubSeq(sending_responses', 1, Len(unsent)) = unsent

\* No submitted operation waits for its reply, and no send to a
\* communicator other than the stalled one waits in the pool.
OthersServed ==
    /\ \A id \in OpIds : replies[id] # "pending"
    /\ \A k \in DOMAIN sending_responses :
            sending_responses[k].target # StalledUuid => sending_responses[k].done

\* A send is marked done only by the step that puts its message into the
\* channel of its target.
DoneIsDelivered ==
    \A k \in DOMAIN sending_responses :
        /\ k \in DOMAIN sending_responses'
        /\ ~sending_responses[k].done
        /\ sending_responses'[k] = [sending_responses[k] EXCEPT !.done = TRUE]
        => LET task == sending_responses[k]
               channel == IF task.kind = "change"
                          THEN change_data_channel'[task.target]
                          ELSE fresh_data_channel'[task.target]
           IN /\ channel # <<>>
              /\ channel[Len(channel)] =
                    [kind |-> task.kind, payload |-> task.payload, n |-> task.n]

\* Some choice of finished promises makes DataContainer::state_update change
\* the state.
TickCanAct ==
    \E polled \in SUBSET OpIds :
        \E c \in {state_update(Container, polled)} :
           <<c.storage, c.change_channel, c.query_channel, c.running_actions,
             c.comm_to_info, c.sending_responses, c.replies, c.handed, c.log>>
           # <<storage, change_channel, query_channel, running_actions,
               comm_to_info, sending_responses, replies, handed, log>>

\* TickEnabled and TickStep are what the fairness condition takes them for.
TickFairnessIsWeakFairness ==
    /\ [](TickEnabled <=> TickCanAct)
    /\ [][TickStep <=> container_state_update]_vars

\* C18. Back-pressure isolation: while the stalled communicator never calls
\* state_update and its channel of deltas stays full, every
\* DataContainer::state_update drains the submission channels and keeps the
\* sends that cannot proceed in the pool; a send leaves the pool only after
\* its message was put into the channel of its target; and again and again
\* every submitted operation has been replied to and every send to another
\* communicator has been delivered.
C18_BackPressureIsolation ==
    /\ [](Len(change_data_channel[StalledUuid]) = MailboxCapacity)
    /\ [][container_state_update =>
            /\ change_channel' = <<>>
            /\ query_channel' = <<>>
            /\ UnsentAreKept]_vars
    /\ [][sender_send => DoneIsDelivered]_vars
    /\ TickFairnessIsWeakFairness
    /\ []<>OthersServed

\* A delta for the stalled communicator waits in the pool because the
\* channel is full, while the delta of the same fan-out for the other
\* communicator has reached its channel and the change was replied to.
C18_Witness ==
    /\ Len(change_data_channel[StalledUuid]) = MailboxCapacity
    /\ \E n \in 1..(MailboxCapacity + 1 + MaxOps) :
            /\ PendingDelta(StalledUuid, n)
            /\ \E u \in Uuids \ {StalledUuid} : DeliveredDelta(u, n)
    /\ \E id \in OpIds : replies[id] = "Success"

\* The tags of the deltas for communicator u that wait in the pool.
PendingTags(u) ==
    {sending_responses[k].n :
        k \in {j \in DOMAIN sending_responses :
                /\ sending_responses[j].target = u
                /\ sending_responses[j].kind = "change"
                /\ ~sending_responses[j].done}}

\* C19. No loss under back-pressure: with more deltas projected onto a
\* communicator than its channel holds, no step other than the send itself
\* takes a waiting delta out of the pool, and every send puts into the
\* channel the oldest of the deltas that wait for its target, so that the
\* communicator applies the deltas in the order the container produced them.
C19_NoLossInOrder ==
    [][\A u \in {StalledUuid} :
        /\ ~sender_send => PendingTags(u) \subseteq PendingTags(u)'
        /\ sender_send =>
            \A n \in PendingTags(u) \ PendingTags(u)' :
                /\ DeliveredDelta(u, n)'
                /\ \A m \in PendingTags(u) : n <= m]_vars

\* More deltas were handed over for the communicator than its channel
\* holds: the channel is still full and two more deltas wait in the pool.
C19_Witness ==
    /\ Len(change_data_channel[StalledUuid]) = MailboxCapacity
    /\ Cardinality(PendingTags(StalledUuid)) = 2

\* C20. Abandoned request still takes effect: a change whose future the
\* client dropped after submitting it is still handed to the storage when it
\* is drained and kept running; when it resolves, the reply is not sent
\* (the channel stays as the client left it) and, if the storage returned
\* Success, the mutation is fanned out and every communicator with a
\* non-empty projection is handed that projection.
C20_AbandonedStillTakesEffect ==
    /\ []LogIsSpawned
    /\ [][container_state_update =>
            \A k \in DOMAIN change_channel :
                LET change == change_channel[k]
                IN replies[change.id] = "abandoned" =>
                    /\ replies'[change.id] = "abandoned"
                    /\ change.id \in RunningIds'
                    /\ \E i \in DOMAIN log' :
                            /\ log'[i].kind = "Recived"
                            /\ log'[i].id = change.id
                            /\ log'[i].invoked = ~ChangeTypeIsEmpty(change.action)]_vars
    /\ [][\A k \in DOMAIN running_actions :
            LET action == running_actions[k]
            IN /\ action.kind = "Change"
               /\ replies[action.id] = "abandoned"
               /\ action.id \notin RunningIds'
               => /\ replies'[action.id] = "abandoned"
                  /\ action.response.ok =>
                        \E e \in FanOuts' :
                            /\ e.id = action.id
                            /\ e.update = action.response.data
                            /\ \A u \in Registered :
                                Len(Projection(e.before[u], e.update).items) # 0 =>
                                    DeltasFor(e, u) = {Projection(e.before[u], e.update)}]_vars

\* An abandoned change was resolved by the step just taken and fanned out
\* to a communicator.
C20_Witness ==
    \E e \in FanOuts :
        /\ replies[e.id] = "abandoned"
        /\ e.communicators # <<>>
        /\ e.id \notin RunningIds

\* What the future of an operation yields, or the state it is in.
ReplyStates ==
    {"unsent", "pending", "Success", "Error", "ChannelSendError", "ChannelReciveError"}

\* C21. Client errors are values: what the future of a submitted operation
\* yields is always a result value; an operation submitted after the
\* container was dropped yields the channel send error, an operation
\* accepted before and not yet replied to yields the channel receive error
\* at the drop, a reply already given is kept, and once the container is
\* dropped no future is left pending.
C21_ClientErrorsAreValues ==
    /\ [](\A id \in OpIds : replies[id] \in ReplyStates)
    /\ [](container_dropped => \A id \in OpIds : replies[id] # "pending")
    /\ [][\A id \in OpIds :
            /\ container_dropped /\ replies[id] = "unsent" /\ replies'[id] # "unsent"
                => replies'[id] = "ChannelSendError"
            /\ ~container_dropped /\ container_dropped' =>
                replies'[id] = IF replies[id] = "pending"
                               THEN "ChannelReciveError" ELSE replies[id]
            /\ replies[id] \notin {"unsent", "pending"} => replies'[id] = replies[id]]_vars

\* The container was dropped while one operation was running, whose future
\* got the receive error, and an operation submitted afterwards got the
\* send error.
C21_Witness ==
    /\ container_dropped
    /\ \E id \in OpIds : replies[id] = "ChannelReciveError"
    /\ \E id \in OpIds : replies[id] = "ChannelSendError"

\* C22. Every accepted request is answered: when DataContainer::state_update
\* keeps being called and the operations of the storage finish, every
\* operation accepted into a submission channel is eventually replied to;
\* and a step in which a reply is given, or a delta or fresh data is handed
\* to the pool, is a step of DataContainer::state_update.
C22_AcceptedIsAnswered ==
    /\ TickFairnessIsWeakFairness
    /\ [][(\/ \E id \in OpIds : replies[id] = "pending" /\ replies'[id] # "pending"
           \/ handed' # handed
           \/ Len(sending_responses') > Len(sending_responses))
          => container_state_update]_vars
    /\ \A id \in OpIds :
            (replies[id] = "pending") ~> (replies[id] \in {"Success", "Error"})

\* Every operation that could be submitted was accepted and replied to.
C22_Witness ==
    /\ \A id \in OpIds : replies[id] \in {"Success", "Error"}
    /\ running_actions = <<>>
    /\ change_channel = <<>>
    /\ query_channel = <<>>

\* Every communicator has completed query(All): All is its standing query
\* and every operation submitted before the change with this id was replied
\* to with Success.
AllQueriedAll(id) ==
    /\ \A u \in Registered : comm_to_info[u].last_query = QAll
    /\ \A other \in OpIds : other < id => replies[other] = "Success"

\* The change with this action has just been accepted, after every
\* communicator completed query(All).
AcceptedAfterQueries(action) ==
    \E k \in DOMAIN change_channel :
        /\ change_channel[k].action = action
        /\ AllQueriedAll(change_channel[k].id)

\* Every operation was replied to with Success and nothing is left to do.
Settled ==
    /\ Quiescent
    /\ \A id \in OpIds : replies[id] \in {"Success", "unsent"}

\* C23. Fan-out of inserts: once every communicator has completed
\* query(All), a value inserted afterwards is, when the insert succeeded and
\* everything was delivered and applied, in the view of every communicator,
\* and the views have the same number of rows.
C23_FanOutOfInserts ==
    \A v \in Values :
        [](AcceptedAfterQueries([t |-> "Insert", items |-> <<v>>]) =>
            [](Settled =>
                /\ \A u \in Registered : v \in data[u]
                /\ \A u \in Registered : \A w \in Registered :
                        Cardinality(data[u]) = Cardinality(data[w])))

\* The insert was accepted after both communicators completed query(All),
\* and is the last operation.
C23_Witness ==
    /\ next_id > MaxOps
    /\ \E v \in Values : AcceptedAfterQueries([t |-> "Insert", items |-> <<v>>])

\* The insert of v has just been accepted and is the only operation
\* outstanding and the last one; the standing query of b is the predicate,
\* which v does not satisfy, b does not know the key of v, and the standing
\* query of a is All.
FilteredInsertAccepted(v, a, b) ==
    /\ ~predicate(v)
    /\ change_channel = <<[id |-> next_id - 1, action |-> [t |-> "Insert", items |-> <<v>>]]>>
    /\ next_id > MaxOps
    /\ query_channel = <<>>
    /\ running_actions = <<>>
    /\ comm_to_info[b].last_query = QPredicate
    /\ v.key \notin comm_to_info[b].value_keys
    /\ v \notin data[b]
    /\ comm_to_info[a].last_query = QAll

\* C24. Predicate filter: when an Insert is fanned out, a value that does
\* not satisfy the predicate and whose key is not known is not handed to a
\* communicator whose standing query is the predicate, and is handed to a
\* communicator whose standing query is All; such a value never appears in
\* the view of the first, and is in the view of the second once everything
\* was delivered and applied.
C24_PredicateFilter ==
    /\ [](\A e \in FanOuts : e.update.t = "Insert" =>
            \A i \in DOMAIN e.update.items :
                LET v == e.update.items[i]
                IN \A u \in DOMAIN e.before :
                    /\ /\ e.before[u].last_query = QPredicate
                       /\ ~predicate(v)
                       /\ v.key \notin e.before[u].value_keys
                       => \A d \in DeltasFor(e, u) : v \notin Range(d.items)
                    /\ e.before[u].last_query = QAll
                       => \E d \in DeltasFor(e, u) : v \in Range(d.items))
    /\ \A v \in Values : \A a \in Uuids : \A b \in Uuids :
            [](FilteredInsertAccepted(v, a, b) =>
                /\ [](v \notin data[b])
                /\ [](Settled => v \in data[a]))

\* The insert was fanned out: the communicator with the predicate was
\* handed nothing and the one with All was handed the value, which is in
\* its view and not in the other's.
C24_Witness ==
    \E v \in Values : \E a \in Registered : \E b \in Registered :
        /\ ~predicate(v)
        /\ comm_to_info[b].last_query = QPredicate
        /\ comm_to_info[a].last_query = QAll
        /\ v.key \notin comm_to_info[b].value_keys
        /\ Settled
        /\ next_id > MaxOps
        /\ v \in data[a]
        /\ v \notin data[b]
        /\ v \in storage

\* The change with this action has just been accepted and is the only
\* operation outstanding and the last one; every communicator has completed
\* query(All) and everything sent so far was delivered and applied.
AcceptedAfterDelivery(action) ==
    /\ change_channel = <<[id |-> next_id - 1, action |-> action]>>
    /\ next_id > MaxOps
    /\ AllQueriedAll(next_id - 1)
    /\ query_channel = <<>>
    /\ running_actions = <<>>
    /\ \A k \in DOMAIN sending_responses : sending_responses[k].done
    /\ \A u \in Registered : change_data_channel[u] = <<>> /\ fresh_data_channel[u] = <<>>

\* C25. Update propagates: when every communicator has completed
\* query(All) and holds a row with key k, an update of k to v2 that
\* succeeds leaves, once everything was delivered and applied, v2 as the
\* only row with key k in every view.
C25_UpdatePropagates ==
    \A v2 \in Values :
        [](/\ AcceptedAfterDelivery([t |-> "Update", items |-> <<v2>>])
           /\ \A u \in Registered : v2.key \in MapKeys(data[u])
           => [](Settled =>
                    \A u \in Registered : \A row \in data[u] :
                        row.key = v2.key <=> row = v2))

\* The update of a row that both communicators hold, after both completed
\* query(All), succeeded and was fanned out to both.
C25_Witness ==
    \E e \in FanOuts :
        /\ e.update.t = "Update"
        /\ replies[e.id] = "Success"
        /\ \A u \in Registered :
            /\ comm_to_info[u].last_query = QAll
            /\ DeltasFor(e, u) = {e.update}
            /\ \E row \in data[u] : row.key = e.update.items[1].key /\ row # e.update.items[1]

\* C26. Delete propagates: after insert, update and delete of the same key,
\* each replied to with Success before the next was submitted, and once
\* everything was delivered and applied, neither the storage nor the view
\* of any communicator holds a row with that key, and the other rows of the
\* views are as they were.
C26_DeleteRoundTrip ==
    (Quiescent /\ \A id \in OpIds : replies[id] = "Success") =>
        /\ FirstKey \notin MapKeys(storage)
        /\ \A u \in Registered :
            data[u] = {[key |-> k, val |-> 0] : k \in Keys \ {FirstKey}}

\* The delete was replied to with Success while the deltas of the insert,
\* of the update and of the delete for one communicator are still to be
\* sent.
C26_Witness ==
    /\ \A id \in OpIds : replies[id] = "Success"
    /\ \E u \in Registered :
        Cardinality({k \in DOMAIN sending_responses :
            sending_responses[k].target = u /\ ~sending_responses[k].done}) = 3

\* C27. Dirty flag: a new communicator has has_changed() = true and an
\* empty view; set_viewed() makes has_changed() false; a
\* Communicator::state_update that drains at least one message makes it
\* true; one that finds both mailboxes empty leaves has_changed and the
\* view as they were.
C27_DirtyFlag ==
    /\ [][communicators =>
            \A u \in Uuids : has_changed'[u] /\ data'[u] = {}]_vars
    /\ [][\A u \in Registered : set_viewed_of(u) => ~has_changed'[u]]_vars
    /\ [][\A u \in Registered : communicator_state_update_of(u) =>
            IF change_data_channel[u] = <<>> /\ fresh_data_channel[u] = <<>>
            THEN has_changed'[u] = has_changed[u] /\ data'[u] = data[u]
            ELSE has_changed'[u]]_vars

\* A communicator whose view was marked as seen has a message waiting, and
\* the other one, also marked as seen, has none.
C27_Witness ==
    \E u, w \in Registered :
        /\ ~has_changed[u]
        /\ change_data_channel[u] \o fresh_data_channel[u] # <<>>
        /\ ~has_changed[w]
        /\ change_data_channel[w] \o fresh_data_channel[w] = <<>>

\* The rows at the positions from (0-based, included) to to (excluded) of
\* a list
Rows(list, from, to) == SubSeq(list, from + 1, to)

Min(a, b) == IF a <= b THEN a ELSE b

\* C28. Pagination: for per_page n > 0 and a view of len rows, page(p, n)
\* is the rows at the positions p*n up to min((p+1)*n, len) of sorted() when
\* p*n < len, and is None when p >= ceil(len/n), that is when p*n >= len.
C28_Pagination ==
    \A p \in 0..MaxPage, n \in 1..MaxPerPage :
        LET len == Len(view.values)
        IN IF p * n < len
           THEN /\ sorted(view) # Panic
                /\ page(view, p, n) =
                    Returned(Some(Rows(sorted(view).v, p * n, Min((p + 1) * n, len))))
           ELSE page(view, p, n) = Returned(None)

\* Data::page returned a last page that is shorter than per_page, of a
\* view of three rows.
C28_Witness ==
    /\ Len(view.values) = 3
    /\ paged.page = 1
    /\ paged.per_page = 2
    /\ paged.result.t = "returned"
    /\ paged.result.v.t = "Some"
    /\ Len(paged.result.v.v) = 1

\* C29. Pagination with page size zero: page(p, 0) returns None for every
\* p and every view, and does not panic.
C29_PageSizeZero ==
    (paged.result.t # "not called" /\ paged.per_page = 0) =>
        paged.result = Returned(None)

\* Data::page was called with per_page zero on a view with rows.
C29_Witness ==
    /\ view.values # <<>>
    /\ paged.result.t # "not called"
    /\ paged.per_page = 0

\* The list is a permutation of the rows of the view, as long as data(),
\* and no row of it is Greater than a later one for the sorting function
\* of the view.
SortedIsOrdered ==
    LET all == sorted(view)
    IN /\ all # Panic
       /\ Len(all.v) = Len(view.values)
       /\ Range(all.v) = Range(view.values)
       /\ \A i \in DOMAIN all.v : \A j \in DOMAIN all.v :
            i < j => sorting_fn_call(view.sorting_fn, all.v[i], all.v[j]) # "Greater"

\* C30. Sorted view: after any sequence of inserts, updates, deletes, fresh
\* data and sort(cmp) calls, sorted() is a permutation of all values of the
\* view, as long as data(), ordered by the sorting function registered
\* last, which is the one by key when none was registered; sort(cmp) called
\* twice with the same function gives the sorted() that one call gives.
C30_SortedView ==
    /\ view.sorting_fn = "key"
    /\ []SortedIsOrdered
    /\ [][\A f \in Comparators : sort_with(f) => view'.sorting_fn = f]_vars
    /\ [][view'.sorting_fn # view.sorting_fn => sort]_vars
    /\ [](\A f \in Comparators :
            sorted(new_sorting_fn(new_sorting_fn(view, f), f))
                = sorted(new_sorting_fn(view, f)))

\* A view of three rows, two of them with the same val, that is sorted by
\* a function registered with sort and whose sorted() is neither in the
\* order of the iterator of the map nor in the order of the keys.
C30_Witness ==
    /\ Len(view.values) = 3
    /\ view.sorting_fn = "val_rev"
    /\ \E i, j \in DOMAIN view.values : i # j /\ view.values[i].val = view.values[j].val
    /\ \E i, j \in DOMAIN view.values : view.values[i].val # view.values[j].val
    /\ sorted(view) # Returned(view.values)
    /\ sorted(view) # sorted(resort_by_key(view))

\* The value of the list that is the last one with the key k
LastOf(values, k) ==
    values[CHOOSE i \in DOMAIN values :
        values[i].key = k /\ \A j \in DOMAIN values : j > i => values[j].key # k]

\* The map after every value of the list was upserted
Upserted(m, values) ==
    {x \in m : x.key \notin ValueKeys(values)}
        \cup {LastOf(values, k) : k \in ValueKeys(values)}

\* The map after the values of the list replaced the rows with their keys
Replaced(m, values) ==
    {x \in m : x.key \notin ValueKeys(values)}
        \cup {LastOf(values, k) : k \in ValueKeys(values) \cap MapKeys(m)}

\* C31, as stated. Local view semantics: applying Insert(V*) or Update(V*)
\* to the view upserts every value, whether its key was present or not, and
\* applying Delete(K*) removes every listed key and nothing else.
C31_InsertAndUpdateUpsert ==
    LET m == Range(view.values)
    IN /\ \A values \in ViewValueLists :
            /\ update_data(m, DataChange("Insert", values)) = Upserted(m, values)
            /\ update_data(m, DataChange("Update", values)) = Upserted(m, values)
       /\ \A keys \in ViewKeyLists :
            update_data(m, DataChange("Delete", keys))
                = {x \in m : x.key \notin Range(keys)}

\* C31, amended. Applying Insert(V*) upserts every value; applying
\* Update(V*) replaces the rows whose key is present and skips the values
\* whose key is absent (the key stays absent); applying Delete(K*) removes
\* every listed key and nothing else.
C31_InsertUpsertsUpdateReplaces ==
    LET m == Range(view.values)
    IN /\ \A values \in ViewValueLists :
            /\ update_data(m, DataChange("Insert", values)) = Upserted(m, values)
            /\ update_data(m, DataChange("Update", values)) = Replaced(m, values)
            /\ MapKeys(update_data(m, DataChange("Update", values))) = MapKeys(m)
       /\ \A keys \in ViewKeyLists :
            update_data(m, DataChange("Delete", keys))
                = {x \in m : x.key \notin Range(keys)}

\* A view that holds rows for two keys and none for the third, so that the
\* lists of values it is called with have keys that are present and keys
\* that are absent.
C31_Witness ==
    /\ Len(view.values) = 2
    /\ \E k \in ViewKeys : k \notin MapKeys(Range(view.values))
    /\ view.sorting_fn = "key"
    /\ paged = NotCalled

\* The queries that are running and the positions of the log at which a
\* query was returned.
RunningQueries ==
    {running_actions[i] :
        i \in {j \in DOMAIN running_actions : running_actions[j].kind = "Query"}}
ReturnsOf(id) == {i \in DOMAIN log : log[i].kind = "Query" /\ log[i].id = id}

\* A query that is drained keeps the communicator that submitted it as its
\* origin.
OriginIsKept ==
    \A i \in DOMAIN query_channel :
        \E a \in RunningQueries' :
            /\ a.id = query_channel[i].id
            /\ a.origin_uuid = query_channel[i].origin_uuid

\* The queries a step of the container resolved with rows are returned
\* once each, to their origin, and nothing else is returned.
ReturnedToOrigin ==
    LET resolved == {a \in RunningQueries :
                        a.response.ok /\ \A b \in RunningQueries' : b.id # a.id}
    IN /\ \A a \in resolved :
            /\ Cardinality(ReturnsOf(a.id)') = 1
            /\ \A i \in ReturnsOf(a.id)' :
                /\ log'[i].communicator = a.origin_uuid
                /\ log'[i].values = a.response.fresh
       /\ \A e \in Returns' : \E a \in resolved : a.id = e.id

\* A message enters the fresh-data mailbox of u only as the send of a
\* FreshData that was handed to the pool for u.
FreshDataIsSent ==
    \A u \in Registered :
        fresh_data_channel'[u] # fresh_data_channel[u]
            /\ Len(fresh_data_channel'[u]) >= Len(fresh_data_channel[u]) =>
        \E i \in DOMAIN sending_responses :
            LET task == sending_responses[i]
            IN /\ task.kind = "fresh" /\ task.target = u /\ ~task.done
               /\ sending_responses' = [sending_responses EXCEPT ![i].done = TRUE]
               /\ fresh_data_channel'[u] = Append(fresh_data_channel[u],
                    [kind |-> "fresh", payload |-> task.payload, n |-> task.n])

\* C32. Mailbox contents: the fresh-data mailbox of communicator U only
\* receives FreshData produced by queries that U itself submitted, and each
\* successful query produces exactly one FreshData message, for its
\* originator.
C32_FreshDataToOriginator ==
    /\ []LogIsSpawned
    /\ [][container_state_update => OriginIsKept /\ ReturnedToOrigin]_vars
    /\ [][Registered # {} => FreshDataIsSent]_vars

\* Two queries of different communicators were returned by the same step,
\* with different rows.
C32_Witness ==
    \E e, f \in Returns :
        e.communicator # f.communicator /\ e.values # f.values

\* The origins of the queries that were submitted and are not resolved.
InFlightOrigins ==
    {query_channel[i].origin_uuid : i \in DOMAIN query_channel}
        \cup {a.origin_uuid : a \in RunningQueries}

\* C33. Registry consistency: after any number of communicator() calls and
\* ticks, every created communicator has one interest record, one
\* change-mailbox sender and one fresh-data sender (the three key sets
\* coincide, and no created id leaves them); a new communicator starts with
\* an empty known set and no standing query, and the records of the others
\* are left as they are; the origin of every in-flight query is a
\* registered id.
C33_RegistryConsistency ==
    /\ [](/\ DOMAIN comm_to_info = DOMAIN change_data_channel
          /\ DOMAIN comm_to_info = DOMAIN fresh_data_channel
          /\ InFlightOrigins \subseteq Registered)
    /\ [][Registered \subseteq Registered']_vars
    /\ [][\A uuid \in Uuids : communicator_of(uuid) =>
            /\ uuid \notin Registered
            /\ Registered' = Registered \cup {uuid}
            /\ comm_to_info'[uuid] = InfoDefault
            /\ \A u \in Registered : comm_to_info'[u] = comm_to_info[u]]_vars

\* The second communicator was created after the first had a query
\* drained, and a query is in flight.
C33_Witness ==
    /\ Registered = Uuids
    /\ \E u \in Registered : comm_to_info[u] = InfoDefault /\ data[u] = {}
    /\ \E u \in Registered : comm_to_info[u].last_query # NoQuery
    /\ RunningQueries # {}

DrainedQueries(u) ==
    {i \in DOMAIN query_channel :
        /\ query_channel[i].origin_uuid = u
        /\ \A j \in DOMAIN query_channel' : query_channel'[j].id # query_channel[i].id}
LastDrained(u) ==
    query_channel[CHOOSE i \in DrainedQueries(u) : \A j \in DrainedQueries(u) : j <= i]

\* C35. Standing query is set at drain time: the standing query of U is
\* the query of the query submission of U drained last (none before the
\* first): a step that drains query submissions of U replaces it with the
\* last of them and leaves the queries running, not yet replied to; every
\* other step, also one that resolves a query with an error, leaves it as
\* it is; and an insert fanned out while a query is drained and not
\* resolved is projected with the new standing query.
C35_StandingSetAtDrain ==
    /\ [][\A u \in Registered :
            IF DrainedQueries(u) = {}
            THEN comm_to_info'[u].last_query = comm_to_info[u].last_query
            ELSE /\ comm_to_info'[u].last_query = LastDrained(u).query_type
                 /\ \A i \in DrainedQueries(u) :
                        /\ \E a \in RunningQueries' : a.id = query_channel[i].id
                        /\ replies'[query_channel[i].id] \in {"pending", "abandoned"}]_vars
    /\ [][\A e \in FanOuts' : \A u \in Registered :
            /\ e.before[u].last_query = comm_to_info[u].last_query
            /\ DeltasFor(e, u) =
                IF Projection(e.before[u], e.update).items = <<>> THEN {}
                ELSE {Projection(e.before[u], e.update)}]_vars

\* An insert was fanned out to a communicator that knew no key, by the
\* query that was drained for it and is still running.
C35_Witness ==
    \E e \in FanOuts : \E u \in Registered :
        /\ e.update.t = "Insert"
        /\ DeltasFor(e, u) # {}
        /\ e.before[u].value_keys = {}
        /\ \E a \in RunningQueries : a.origin_uuid = u

\* The keys of the elements of a delta
DeltaKeys(delta) == {ItemKey(delta, delta.items[x]) : x \in DOMAIN delta.items}

\* C36. Knowledge update on fan-out: when a mutation is fanned out, the
\* known set of a recipient gains every key of its delta when the delta is
\* an Insert, loses every key of its delta when it is a Delete and is
\* unchanged when it is an Update; the known sets of the communicators that
\* are not recipients are unchanged, and no standing query changes.
C36_KnowledgeUpdate ==
    /\ LogIsSpawned
    /\ \A e \in FanOuts : \A u \in DOMAIN e.before :
        /\ e.after[u].last_query = e.before[u].last_query
        /\ IF DeltasFor(e, u) = {}
           THEN e.after[u].value_keys = e.before[u].value_keys
           ELSE \A delta \in DeltasFor(e, u) :
                e.after[u].value_keys =
                    CASE delta.t = "Insert" -> e.before[u].value_keys \cup DeltaKeys(delta)
                      [] delta.t = "Delete" -> e.before[u].value_keys \ DeltaKeys(delta)
                      [] delta.t = "Update" -> e.before[u].value_keys

\* A Delete was fanned out to one communicator, which knew its key and
\* another key, and not to the other communicator.
C36_Witness ==
    \E e \in FanOuts : \E u, w \in DOMAIN e.before :
        /\ e.update.t = "Delete"
        /\ DeltasFor(e, u) # {}
        /\ DeltasFor(e, w) = {}
        /\ e.after[u].value_keys # {}
        /\ e.after[u].value_keys # e.before[u].value_keys

\* The position of the running action of an operation: the actions are
\* appended to running_actions in the order they are dispatched to the
\* storage.
DispatchPosition(id) ==
    CHOOSE k \in DOMAIN running_actions : running_actions[k].id = id

\* The positions of the log at which an action was resolved
ResolvedAt == {i \in DOMAIN log : log[i].kind \in {"Change", "Query"}}

\* C37. Resolution order follows dispatch order: the operations a step of
\* the container finds complete are fanned out and returned in the order
\* in which they were dispatched to the storage.
C37_ResolutionFollowsDispatch ==
    [][\A i \in ResolvedAt' : \A j \in ResolvedAt' :
            i < j => DispatchPosition(log'[i].id) < DispatchPosition(log'[j].id)]_vars

\* One step fanned out two updates of the same row, with different vals.
C37_Witness ==
    \E i \in ResolvedAt : \E j \in ResolvedAt :
        /\ i < j
        /\ log[i].kind = "Change" /\ log[j].kind = "Change"
        /\ log[i].update.t = "Update" /\ log[j].update.t = "Update"
        /\ Len(log[i].update.items) = 1 /\ Len(log[j].update.items) = 1
        /\ log[i].update.items[1].key = log[j].update.items[1].key
        /\ log[i].update.items[1].val # log[j].update.items[1].val

\* The ids of a list of submissions, of running actions or of entries of
\* the log, in the order of the list
IdsOf(list) == [i \in DOMAIN list |-> list[i].id]

\* The entries of the log for the actions the step handed to the storage
RecivedLog == SelectSeq(log, LAMBDA e : e.kind = "Recived")

\* The last n elements of a list
LastN(list, n) == SubSeq(list, Len(list) - n + 1, Len(list))

\* C38. Drain order of submissions: a step of the container hands every
\* pending change to the storage, in the order of the change channel, and
\* then every pending query, in the order of the query channel, whatever
\* the order in which they were submitted; each is handed over once and
\* becomes one running action, and a query sees the store with the changes
\* drained by the same step.
C38_ChangesBeforeQueries ==
    [][container_state_update =>
        LET pending == IdsOf(change_channel) \o IdsOf(query_channel)
            new == LastN(running_actions', Len(pending))
        IN /\ IdsOf(RecivedLog') = pending
           /\ change_channel' = <<>> /\ query_channel' = <<>>
           /\ Len(running_actions') >= Len(pending)
           /\ IdsOf(new) = pending
           /\ \A i \in DOMAIN running_actions' : \A j \in DOMAIN running_actions' :
                running_actions'[i].id = running_actions'[j].id => i = j
           /\ \A i \in DOMAIN query_channel :
                LET a == new[Len(change_channel) + i]
                IN /\ a.kind = "Query"
                   /\ a.response = handle_query(storage', query_channel[i].query_type)]_vars

\* A step drained a change and then a query that was submitted before the
\* change, and the rows the query returns are not those the store held
\* when the query was submitted.
C38_Witness ==
    /\ Len(RecivedLog) = 2
    /\ RecivedLog[1].id > RecivedLog[2].id
    /\ \E a \in RunningQueries :
        /\ a.id = RecivedLog[2].id
        /\ a.response.ok
        /\ a.response.fresh = storage
        /\ storage # {[key |-> k, val |-> 0] : k \in Keys}

\* No query of u was drained: its record is the one it was created with.
NeverQueried(u) == comm_to_info[u] = InfoDefault

\* C39. No query, no deliveries: a communicator that never had a query
\* drained and knows no key is handed no delta, whoever submitted the
\* insert, update or delete; nothing is sent to it, its mailboxes and its
\* view stay empty, and its has_changed flag is not set again once it was
\* cleared.
C39_NoQueryNoDeliveries ==
    /\ [](\A u \in Registered : NeverQueried(u) =>
            /\ handed[u] = 0
            /\ \A i \in DOMAIN sending_responses : sending_responses[i].target # u
            /\ change_data_channel[u] = <<>> /\ fresh_data_channel[u] = <<>>
            /\ data[u] = {}
            /\ \A e \in FanOuts : DeltasFor(e, u) = {})
    /\ [][\A u \in Registered : NeverQueried(u) /\ NeverQueried(u)' =>
            (has_changed'[u] => has_changed[u])]_vars

\* An insert was replied to with Success and fanned out to a communicator
\* that has queried, while the other communicator, which never queried and
\* has marked its view as seen, called state_update.
C39_Witness ==
    \E u, w \in Registered :
        /\ NeverQueried(u)
        /\ ~has_changed[u]
        /\ \E id \in OpIds : replies[id] = "Success"
        /\ \E row \in data[w] : row \notin {[key |-> k, val |-> 0] : k \in Keys}
        /\ Quiescent

====
